---- MODULE Spec2Model ----
(***************************************************************************)
(* Model of the MommyData controllers (app/controllers/                    *)
(* scenario_controller.py) over the Mother table of the row store.         *)
(*                                                                         *)
(* A request is served in one step: the route handler hands its query      *)
(* parameters to the controller, the controller issues its grouped         *)
(* queries and reshapes the rows, and the value it returns is kept in      *)
(* `result` until the response is sent.  A second machine, ServiceSpec,     *)
(* serves several requests at once and takes a step at every query and at  *)
(* every iteration of a reshaping loop; each request holds its own session *)
(* and its own local values in `inflight`.                                 *)
(*                                                                         *)
(* Optional values (Python None / SQL NULL) are sequences of length at     *)
(* most one: None is <<>> and a present value v is <<v>>.  Python floats   *)
(* are exact rationals [n, d] in lowest terms; rounding is not modelled.   *)
(***************************************************************************)
EXTENDS Integers, Sequences, FiniteSets, TLC

VARIABLES store, complication, birth, baby, pc, call, result, executed,
          inflight, sessions

vars ==
  <<store, complication, birth, baby, pc, call, result, executed, inflight,
    sessions>>

\* The Mother, Complication, Birth and Baby tables.
tables == <<store, complication, birth, baby>>

\* The requests in progress and the sessions that are open.
service == <<inflight, sessions>>

----------------------------------------------------------------------------
(* Optional values and Python truthiness *)

None == <<>>

Some(v) == <<v>>

IsNone(x) == x = <<>>

Val(x) == x[1]

\* bool(x) of an Optional[int]: None and 0 are falsy.
TruthyInt(x) == ~IsNone(x) /\ Val(x) # 0

\* bool(x) of an Optional[str]: None and "" are falsy.
TruthyStr(x) == ~IsNone(x) /\ Val(x) # ""

\* bool(x) of an Optional[list]: None and [] are falsy.
TruthyList(x) == ~IsNone(x) /\ Len(Val(x)) > 0

----------------------------------------------------------------------------
(* Floats as exact rationals *)

Abs(i) == IF i < 0 THEN -i ELSE i

RECURSIVE GCD(_, _)
GCD(a, b) == IF b = 0 THEN a ELSE GCD(b, a % b)

\* The rational n/d (d > 0) in lowest terms.
Rat(n, d) ==
  LET g == GCD(Abs(n), d)
  IN  [n |-> n \div g, d |-> d \div g]

RatAdd(x, y) == Rat(x.n * y.d + y.n * x.d, x.d * y.d)

Zero == Rat(0, 1)

Hundred == Rat(100, 1)

----------------------------------------------------------------------------
(* Strings: str.lower() and the store's BINARY collation, over the strings *)
(* the model uses.                                                         *)

\* The strings of the model in the store's collation order (byte order).
Collation ==
  << "", "20-24", "25-29", "Gestational diabetes", "Gestational hypertension",
     "Not Stated", "TOTAL", "Total", "Unknown", "total" >>

StrRank(s) == CHOOSE i \in 1..Len(Collation) : Collation[i] = s

\* str.lower()
Lower(s) ==
  CASE s = "TOTAL" -> "total"
    [] s = "Total" -> "total"
    [] s = "Not Stated" -> "not stated"
    [] s = "Gestational diabetes" -> "gestational diabetes"
    [] s = "Gestational hypertension" -> "gestational hypertension"
    [] s = "Unknown" -> "unknown"
    [] s = "Diabetes" -> "diabetes"
    [] s = "NOT STATED" -> "not stated"
    [] s = "Diabetes status" -> "diabetes status"
    [] s = "Hypertension status" -> "hypertension status"
    [] s = "Smoking status" -> "smoking status"
    [] s = "Diabetes - None" -> "diabetes - none"
    [] s = "Hypertension - Not stated" -> "hypertension - not stated"
    [] OTHER -> s

\* Position of a nullable text value under ORDER BY: NULL first, then the
\* strings in byte order.
OptStrRank(a) == IF IsNone(a) THEN 0 ELSE StrRank(Val(a))

\* Position of a nullable boolean under ORDER BY: NULL, then false, then true.
OptBoolRank(a) == IF IsNone(a) THEN 0 ELSE IF Val(a) THEN 2 ELSE 1

----------------------------------------------------------------------------
(* Python dict and sorted() *)

EmptyDict == [k \in {} |-> {}]

DictSet(d, k, v) == [x \in (DOMAIN d) \cup {k} |-> IF x = k THEN v ELSE d[x]]

RECURSIVE listed(_)
\* list(S) without the sort: the set's elements in some order, here the
\* descending one.
listed(S) ==
  IF S = {} THEN <<>>
  ELSE LET m == CHOOSE x \in S : \A y \in S : x >= y
       IN  <<m>> \o listed(S \ {m})

RECURSIVE sorted(_)
sorted(S) ==
  IF S = {} THEN <<>>
  ELSE LET m == CHOOSE x \in S : \A y \in S : x <= y
       IN  <<m>> \o sorted(S \ {m})

----------------------------------------------------------------------------
(* The Mother table (app/models/mother.py).  `store` is the table in       *)
(* insertion order; a row's id is its position.                            *)

MotherRow(year, age_group, diabetes_pre, diabetes_subgroup, hypertension_pre, hypertension_subgroup, smoking_status, bmi_category, lhd, total_mothers, percentage) ==
  [ year |-> year, age_group |-> age_group,
    diabetes_pre |-> diabetes_pre, diabetes_subgroup |-> diabetes_subgroup,
    hypertension_pre |-> hypertension_pre,
    hypertension_subgroup |-> hypertension_subgroup,
    smoking_status |-> smoking_status, bmi_category |-> bmi_category,
    lhd |-> lhd, total_mothers |-> total_mothers, percentage |-> percentage ]

Range(s) == {s[i] : i \in 1..Len(s)}

----------------------------------------------------------------------------
(* SQL aggregates over the rows of one group (a sequence, duplicates kept) *)

RECURSIVE SumOpt(_, _)
\* Sum of the non-NULL values of column `col` over `rows`.
SumOpt(rows, col) ==
  IF rows = <<>> THEN 0
  ELSE (IF IsNone(Head(rows)[col]) THEN 0 ELSE Val(Head(rows)[col]))
       + SumOpt(Tail(rows), col)

CountNonNull(rows, col) == Len(SelectSeq(rows, LAMBDA r : ~IsNone(r[col])))

\* func.avg(func.coalesce(col, 0)): a NULL counts as 0 in the mean.
SqlAvgNullAsZero(rows, col) ==
  IF rows = <<>> THEN None ELSE Some(Rat(SumOpt(rows, col), Len(rows)))

\* func.avg(col): the mean of the non-NULL values, NULL when there is none.
SqlAvg(rows, col) ==
  IF CountNonNull(rows, col) = 0 THEN None
  ELSE Some(Rat(SumOpt(rows, col), CountNonNull(rows, col)))

\* func.sum(col): the sum of the non-NULL values, NULL when there is none.
SqlSum(rows, col) ==
  IF CountNonNull(rows, col) = 0 THEN None ELSE Some(SumOpt(rows, col))

----------------------------------------------------------------------------
(* get_factor_data and get_factor_data_simple: the query                   *)

FactorField(factor_name) ==
  IF factor_name = "diabetes" THEN "diabetes_pre" ELSE "hypertension_pre"

SubgroupField(factor_name) ==
  IF factor_name = "diabetes" THEN "diabetes_subgroup"
  ELSE "hypertension_subgroup"

\* The year conditions with two bounds given in natural order read as the
\* range start_year..end_year.
YearConditionsEitherOrder(year, start_year, end_year) ==
  IF TruthyInt(start_year) /\ TruthyInt(end_year)
  THEN \/ year >= Val(end_year) /\ year <= Val(start_year)
       \/ year >= Val(start_year) /\ year <= Val(end_year)
  ELSE IF TruthyInt(start_year) THEN year <= Val(start_year)
  ELSE IF TruthyInt(end_year) THEN year >= Val(end_year)
  ELSE TRUE

\* The year conditions appended to the WHERE clause.
YearConditions(year, start_year, end_year) ==
  IF TruthyInt(start_year) /\ TruthyInt(end_year)
  THEN year >= Val(end_year) /\ year <= Val(start_year)
  ELSE IF TruthyInt(start_year) THEN year <= Val(start_year)
  ELSE IF TruthyInt(end_year) THEN year >= Val(end_year)
  ELSE TRUE

\* The sub-group condition of get_factor_data: equality for one element,
\* IN for several; a comparison with NULL is not true.
SubGroupCondition(row, factor_name, sub_group) ==
  IF TruthyList(sub_group)
  THEN LET sg == row[SubgroupField(factor_name)]
       IN  IF Len(Val(sub_group)) = 1
           THEN ~IsNone(sg) /\ Val(sg) = Val(sub_group)[1]
           ELSE ~IsNone(sg) /\ Val(sg) \in Range(Val(sub_group))
  ELSE TRUE

\* WHERE clause of get_factor_data.
FactorWhere(row, factor_name, start_year, end_year, sub_group) ==
  /\ ~IsNone(row[FactorField(factor_name)])
  /\ ~IsNone(row.age_group)
  /\ SubGroupCondition(row, factor_name, sub_group)
  /\ YearConditions(row.year, start_year, end_year)

\* ORDER BY over three columns; `rank` gives each key its three positions.
KeyLess(r1, r2) ==
  \/ r1[1] < r2[1]
  \/ r1[1] = r2[1] /\ r1[2] < r2[2]
  \/ r1[1] = r2[1] /\ r1[2] = r2[2] /\ r1[3] < r2[3]

RECURSIVE OrderBy(_, _)
OrderBy(keys, rank) ==
  IF keys = {} THEN <<>>
  ELSE LET m == CHOOSE x \in keys :
                  \A y \in keys \ {x} : KeyLess(rank[x], rank[y])
       IN  <<m>> \o OrderBy(keys \ {m}, rank)

\* The query of get_factor_data without its ORDER BY: the groups come in the
\* order in which the table first holds a row of each.
FactorQueryUnordered(db, factor_name, start_year, end_year, sub_group) ==
  LET sel == SelectSeq(db, LAMBDA r :
               FactorWhere(r, factor_name, start_year, end_year, sub_group))
      sf == SubgroupField(factor_name)
      KeyAt(i) == <<sel[i].year, sel[i].age_group, sel[i][sf]>>
      first == {i \in 1..Len(sel) : \A j \in 1..(i - 1) : KeyAt(j) # KeyAt(i)}
      ordered == sorted(first)
      GroupOf(k) == SelectSeq(sel, LAMBDA r :
                      <<r.year, r.age_group, r[sf]>> = k)
  IN  [i \in 1..Len(ordered) |->
         [ year |-> KeyAt(ordered[i])[1], age_group |-> KeyAt(ordered[i])[2],
           sub_group |-> KeyAt(ordered[i])[3],
           avg_percentage |-> SqlAvg(GroupOf(KeyAt(ordered[i])), "percentage") ]]

\* The rows the query of get_factor_data returns: one per
\* (year, age_group, sub_group), with the mean percentage, in ORDER BY order.
FactorQuery(db, factor_name, start_year, end_year, sub_group) ==
  LET sel == SelectSeq(db, LAMBDA r :
               FactorWhere(r, factor_name, start_year, end_year, sub_group))
      sf == SubgroupField(factor_name)
      keys == {<<r.year, r.age_group, r[sf]>> : r \in Range(sel)}
      ordered == OrderBy(keys, [k \in keys |->
                   <<k[1], OptStrRank(k[2]), OptStrRank(k[3])>>])
      GroupOf(k) == SelectSeq(sel, LAMBDA r :
                      <<r.year, r.age_group, r[sf]>> = k)
  IN  [i \in 1..Len(ordered) |->
         [ year |-> ordered[i][1], age_group |-> ordered[i][2],
           sub_group |-> ordered[i][3],
           avg_percentage |-> SqlAvg(GroupOf(ordered[i]), "percentage") ]]

----------------------------------------------------------------------------
(* get_factor_data: reshaping the query rows                               *)

\* The age-group test without .lower(): only the lower-case spellings match.
SkippedAgeGroupExact(age_group) ==
  \/ ~TruthyStr(age_group)
  \/ Val(age_group) \in {"total", "not stated"}

\* `not row.age_group or row.age_group.lower() in ['total', 'not stated']`
SkippedAgeGroup(age_group) ==
  \/ ~TruthyStr(age_group)
  \/ Lower(Val(age_group)) \in {"total", "not stated"}

\* `str(row.sub_group) if row.sub_group else 'Unknown'`
SubGroupLabel(sub_group) ==
  IF TruthyStr(sub_group) THEN Val(sub_group) ELSE "Unknown"

\* `float(row.avg_percentage) if row.avg_percentage else 0.0`
FloatOrZero(avg) == IF ~IsNone(avg) /\ Val(avg).n # 0 THEN Val(avg) ELSE Zero

\* age_groups_data[age_group_key][label][year] = percentage, creating the
\* inner dicts that are missing.
SetCell(data, age_group_key, label, year, percentage) ==
  LET byLabel == IF age_group_key \in DOMAIN data
                 THEN data[age_group_key] ELSE EmptyDict
      byYear == IF label \in DOMAIN byLabel THEN byLabel[label] ELSE EmptyDict
  IN  DictSet(data, age_group_key,
              DictSet(byLabel, label, DictSet(byYear, year, percentage)))

\* One iteration of `for row in result` of get_factor_data.
FactorRowStep(acc, row) ==
  IF SkippedAgeGroup(row.age_group) THEN acc
  ELSE [ years_set |-> acc.years_set \cup {row.year},
         age_groups_data |->
           SetCell(acc.age_groups_data, Val(row.age_group),
                   SubGroupLabel(row.sub_group), row.year,
                   FloatOrZero(row.avg_percentage)) ]

RECURSIVE FactorLoop(_, _)
FactorLoop(rows, acc) ==
  IF rows = <<>> THEN acc
  ELSE FactorLoop(Tail(rows), FactorRowStep(acc, Head(rows)))

EmptyAcc == [years_set |-> {}, age_groups_data |-> EmptyDict]

\* The `results` dict a factor call starts from and returns.
FactorResults(factor_name, age_group, years, age_groups) ==
  [ factor |-> factor_name, user_age_group |-> age_group,
    years |-> years, age_groups |-> age_groups ]

\* get_factor_data that also restricts the rows to the caller's age group.
get_factor_data_own_age(db, factor_name, age_group, start_year, end_year, sub_group) ==
  IF factor_name \notin {"diabetes", "hypertension"}
  THEN [ ret |-> FactorResults(factor_name, age_group, <<>>, EmptyDict),
         executed |-> 0 ]
  ELSE LET own == SelectSeq(db, LAMBDA r :
                    TruthyStr(age_group) => r.age_group = age_group)
           rows == FactorQuery(own, factor_name, start_year, end_year, sub_group)
           acc == FactorLoop(rows, EmptyAcc)
       IN  [ ret |-> FactorResults(factor_name, age_group,
                                   sorted(acc.years_set), acc.age_groups_data),
             executed |-> 1 ]

\* get_factor_data that compares factor_name.lower() with the factor names.
get_factor_data_any_case(db, factor_name, age_group, start_year, end_year, sub_group) ==
  IF Lower(factor_name) \notin {"diabetes", "hypertension"}
  THEN [ ret |-> FactorResults(factor_name, age_group, <<>>, EmptyDict),
         executed |-> 0 ]
  ELSE LET rows == FactorQuery(db, Lower(factor_name), start_year, end_year,
                               sub_group)
           acc == FactorLoop(rows, EmptyAcc)
       IN  [ ret |-> FactorResults(factor_name, age_group,
                                   sorted(acc.years_set), acc.age_groups_data),
             executed |-> 1 ]

\* get_factor_data: the value returned and the number of queries executed.
get_factor_data(db, factor_name, age_group, start_year, end_year, sub_group) ==
  IF factor_name \notin {"diabetes", "hypertension"}
  THEN [ ret |-> FactorResults(factor_name, age_group, <<>>, EmptyDict),
         executed |-> 0 ]
  ELSE LET rows == FactorQuery(db, factor_name, start_year, end_year, sub_group)
           acc == FactorLoop(rows, EmptyAcc)
       IN  [ ret |-> FactorResults(factor_name, age_group,
                                   sorted(acc.years_set), acc.age_groups_data),
             executed |-> 1 ]

----------------------------------------------------------------------------
(* get_factor_data_simple                                                  *)

\* WHERE clause of get_factor_data_simple excluding "Total" in any letter
\* case.
SimpleWhereAnyCase(row, factor_name, start_year, end_year) ==
  /\ ~IsNone(row[FactorField(factor_name)])
  /\ ~IsNone(row.age_group)
  /\ \/ IsNone(row[SubgroupField(factor_name)])
     \/ Lower(Val(row[SubgroupField(factor_name)])) # "total"
  /\ YearConditions(row.year, start_year, end_year)

\* WHERE clause of get_factor_data_simple.
SimpleWhere(row, factor_name, start_year, end_year) ==
  /\ ~IsNone(row[FactorField(factor_name)])
  /\ ~IsNone(row.age_group)
  /\ \/ IsNone(row[SubgroupField(factor_name)])
     \/ Val(row[SubgroupField(factor_name)]) # "Total"
  /\ YearConditions(row.year, start_year, end_year)

\* The query of get_factor_data_simple without its GROUP BY: one row per
\* stored row, with that row's count, in ORDER BY order (rows of one key in
\* insertion order).
SimpleQueryUngrouped(db, factor_name, start_year, end_year) ==
  LET sel == SelectSeq(db, LAMBDA r :
               SimpleWhere(r, factor_name, start_year, end_year))
      ff == FactorField(factor_name)
      keys == {<<r.year, r.age_group, r[ff]>> : r \in Range(sel)}
      ordered == OrderBy(keys, [k \in keys |->
                   <<k[1], OptStrRank(k[2]), OptBoolRank(k[3])>>])
      RowsOf(k) == SelectSeq(sel, LAMBDA r :
                     <<r.year, r.age_group, r[ff]>> = k)
      Flat[i \in 0..Len(ordered)] ==
        IF i = 0 THEN <<>>
        ELSE Flat[i - 1] \o
             [j \in 1..Len(RowsOf(ordered[i])) |->
                [ year |-> ordered[i][1], age_group |-> ordered[i][2],
                  has_factor |-> ordered[i][3],
                  total_mothers |-> RowsOf(ordered[i])[j].total_mothers ]]
  IN  Flat[Len(ordered)]

\* The query of get_factor_data_simple taking each group's count from the
\* rounded-down mean of the rows' percentages instead of the summed counts.
SimpleQueryFromPercentages(db, factor_name, start_year, end_year) ==
  LET sel == SelectSeq(db, LAMBDA r :
               SimpleWhere(r, factor_name, start_year, end_year))
      ff == FactorField(factor_name)
      keys == {<<r.year, r.age_group, r[ff]>> : r \in Range(sel)}
      ordered == OrderBy(keys, [k \in keys |->
                   <<k[1], OptStrRank(k[2]), OptBoolRank(k[3])>>])
      GroupOf(k) == SelectSeq(sel, LAMBDA r :
                      <<r.year, r.age_group, r[ff]>> = k)
      Mean(k) == SqlAvg(GroupOf(k), "percentage")
  IN  [i \in 1..Len(ordered) |->
         [ year |-> ordered[i][1], age_group |-> ordered[i][2],
           has_factor |-> ordered[i][3],
           total_mothers |-> IF IsNone(Mean(ordered[i])) THEN None
                             ELSE Some(Val(Mean(ordered[i])).n
                                       \div Val(Mean(ordered[i])).d) ]]

\* The rows the query of get_factor_data_simple returns: one per
\* (year, age_group, factor value), with the summed count, in ORDER BY order.
SimpleQuery(db, factor_name, start_year, end_year) ==
  LET sel == SelectSeq(db, LAMBDA r :
               SimpleWhere(r, factor_name, start_year, end_year))
      ff == FactorField(factor_name)
      keys == {<<r.year, r.age_group, r[ff]>> : r \in Range(sel)}
      ordered == OrderBy(keys, [k \in keys |->
                   <<k[1], OptStrRank(k[2]), OptBoolRank(k[3])>>])
      GroupOf(k) == SelectSeq(sel, LAMBDA r :
                      <<r.year, r.age_group, r[ff]>> = k)
  IN  [i \in 1..Len(ordered) |->
         [ year |-> ordered[i][1], age_group |-> ordered[i][2],
           has_factor |-> ordered[i][3],
           total_mothers |-> SqlSum(GroupOf(ordered[i]), "total_mothers") ]]

\* `int(row.total_mothers) if row.total_mothers else 0`
IntOrZero(x) == IF TruthyInt(x) THEN Val(x) ELSE 0

\* temp_data: the keys in insertion order and the {True, False} counts.
EmptyTemp == [keys |-> <<>>, counts |-> EmptyDict, years_set |-> {}]

\* One iteration of the first pass of get_factor_data_simple.
SimpleRowStep(temp, row) ==
  IF SkippedAgeGroup(row.age_group) THEN temp
  ELSE LET key == <<Val(row.age_group), row.year>>
           has_factor == Val(row.has_factor)
           old == IF key \in DOMAIN temp.counts THEN temp.counts[key]
                  ELSE [b \in BOOLEAN |-> 0]
       IN  [ keys |-> IF key \in DOMAIN temp.counts THEN temp.keys
                      ELSE Append(temp.keys, key),
             counts |-> DictSet(temp.counts, key,
                          [old EXCEPT ![has_factor] = IntOrZero(row.total_mothers)]),
             years_set |-> temp.years_set \cup {row.year} ]

RECURSIVE SimpleFirstPass(_, _)
SimpleFirstPass(rows, temp) ==
  IF rows = <<>> THEN temp
  ELSE SimpleFirstPass(Tail(rows), SimpleRowStep(temp, Head(rows)))

\* `(counts[has_factor] / total * 100) if total > 0 else 0.0`
Percentage(count, total) == IF total > 0 THEN Rat(count * 100, total) ELSE Zero

\* The second pass writing 0.0 for Yes and No where total == 0 instead of
\* skipping the key.
SimpleKeyStepZeroTotal(data, key, counts) ==
  LET total == counts[TRUE] + counts[FALSE]
  IN  SetCell(SetCell(data, key[1], "Yes", key[2],
                      Percentage(counts[TRUE], total)),
              key[1], "No", key[2], Percentage(counts[FALSE], total))

\* The second pass writing a No cell only for a non-zero count.
SimpleKeyStepSparse(data, key, counts) ==
  LET total == counts[TRUE] + counts[FALSE]
      yes == SetCell(data, key[1], "Yes", key[2], Percentage(counts[TRUE], total))
  IN  IF total = 0 THEN data
      ELSE IF counts[FALSE] = 0 THEN yes
      ELSE SetCell(yes, key[1], "No", key[2], Percentage(counts[FALSE], total))

\* One iteration of the second pass: the Yes and No cells of one key.
SimpleKeyStep(data, key, counts) ==
  LET total == counts[TRUE] + counts[FALSE]
  IN  IF total = 0 THEN data
      ELSE SetCell(SetCell(data, key[1], "Yes", key[2],
                           Percentage(counts[TRUE], total)),
                   key[1], "No", key[2], Percentage(counts[FALSE], total))

RECURSIVE SimpleSecondPass(_, _, _)
SimpleSecondPass(keys, counts, data) ==
  IF keys = <<>> THEN data
  ELSE SimpleSecondPass(Tail(keys), counts,
                        SimpleKeyStep(data, Head(keys), counts[Head(keys)]))

\* get_factor_data_simple: the value returned and the queries executed.
get_factor_data_simple(db, factor_name, age_group, start_year, end_year) ==
  IF factor_name \notin {"diabetes", "hypertension"}
  THEN [ ret |-> FactorResults(factor_name, age_group, <<>>, EmptyDict),
         executed |-> 0 ]
  ELSE LET rows == SimpleQuery(db, factor_name, start_year, end_year)
           temp == SimpleFirstPass(rows, EmptyTemp)
           data == SimpleSecondPass(temp.keys, temp.counts, EmptyDict)
       IN  [ ret |-> FactorResults(factor_name, age_group,
                                   sorted(temp.years_set), data),
             executed |-> 1 ]

----------------------------------------------------------------------------
(* get_preparing_scenario_data                                             *)

\* The `filters` list with `if diabetes:` and `if hypertension:` in place of
\* the `is not None` tests: a flag given as false adds no filter.
ProfileFiltersTruthyFlags(row, age_group, smoking, bmi, diabetes, hypertension, lhd) ==
  /\ TruthyStr(age_group) => row.age_group = age_group
  /\ TruthyStr(smoking) => row.smoking_status = smoking
  /\ TruthyStr(bmi) => row.bmi_category = bmi
  /\ diabetes = Some(TRUE) => row.diabetes_pre = diabetes
  /\ hypertension = Some(TRUE) => row.hypertension_pre = hypertension
  /\ TruthyStr(lhd) => row.lhd = lhd

\* The `filters` list: one equality per supplied attribute.  A comparison
\* of a NULL column is not true.
ProfileFilters(row, age_group, smoking, bmi, diabetes, hypertension, lhd) ==
  /\ TruthyStr(age_group) => row.age_group = age_group
  /\ TruthyStr(smoking) => row.smoking_status = smoking
  /\ TruthyStr(bmi) => row.bmi_category = bmi
  /\ ~IsNone(diabetes) => row.diabetes_pre = diabetes
  /\ ~IsNone(hypertension) => row.hypertension_pre = hypertension
  /\ TruthyStr(lhd) => row.lhd = lhd

\* select(count(id), avg(percentage)) read into {total, avg_percentage}.
SnapshotStats(rows) ==
  [ total |-> Len(rows),
    avg_percentage |-> FloatOrZero(SqlAvg(rows, "percentage")) ]

\* The complication query: one row per complication_type of year 2023.
\* The query has no ORDER BY; `order` is the order the store returns.
ComplicationTypes(cdb) == {c.complication_type : c \in {x \in Range(cdb) : x.year = 2023}}

ComplicationList(cdb, order) ==
  [i \in 1..Len(order) |->
     LET rows == SelectSeq(cdb, LAMBDA c :
                   c.year = 2023 /\ c.complication_type = order[i])
     IN  [ type |-> order[i], count |-> Len(rows),
           percentage |-> FloatOrZero(SqlAvg(rows, "percentage")) ]]

\* The orders in which the store may return a set of groups.
Orders(S) ==
  {o \in [1..Cardinality(S) -> S] : \A i, j \in DOMAIN o : i # j => o[i] # o[j]}

\* get_preparing_scenario_data whose baseline counts the rows that have a
\* percentage (count(percentage)) instead of every row (count(id)).
get_preparing_scenario_data_baseline_counts_percentage(db, cdb, order, age_group, smoking, bmi, diabetes, hypertension, lhd) ==
  LET matching == SelectSeq(db, LAMBDA r :
                    /\ r.year = 2023
                    /\ ProfileFilters(r, age_group, smoking, bmi, diabetes,
                                      hypertension, lhd))
      overall == SelectSeq(db, LAMBDA r : r.year = 2023)
  IN  [ ret |-> [ mothers |-> SnapshotStats(matching),
                  complications |-> ComplicationList(cdb, order),
                  overall_average |->
                    [SnapshotStats(overall) EXCEPT
                       !.total = CountNonNull(overall, "percentage")] ],
        executed |-> 3 ]

\* get_preparing_scenario_data whose `mothers` query lacks the year filter.
get_preparing_scenario_data_any_year(db, cdb, order, age_group, smoking, bmi, diabetes, hypertension, lhd) ==
  LET matching == SelectSeq(db, LAMBDA r :
                    ProfileFilters(r, age_group, smoking, bmi, diabetes,
                                   hypertension, lhd))
      overall == SelectSeq(db, LAMBDA r : r.year = 2023)
  IN  [ ret |-> [ mothers |-> SnapshotStats(matching),
                  complications |-> ComplicationList(cdb, order),
                  overall_average |-> SnapshotStats(overall) ],
        executed |-> 3 ]

\* get_preparing_scenario_data whose baseline query lacks the year filter.
get_preparing_scenario_data_baseline_all_years(db, cdb, order, age_group, smoking, bmi, diabetes, hypertension, lhd) ==
  LET matching == SelectSeq(db, LAMBDA r :
                    /\ r.year = 2023
                    /\ ProfileFilters(r, age_group, smoking, bmi, diabetes,
                                      hypertension, lhd))
  IN  [ ret |-> [ mothers |-> SnapshotStats(matching),
                  complications |-> ComplicationList(cdb, order),
                  overall_average |-> SnapshotStats(db) ],
        executed |-> 3 ]

get_preparing_scenario_data(db, cdb, order, age_group, smoking, bmi, diabetes, hypertension, lhd) ==
  LET matching == SelectSeq(db, LAMBDA r :
                    /\ r.year = 2023
                    /\ ProfileFilters(r, age_group, smoking, bmi, diabetes,
                                      hypertension, lhd))
      overall == SelectSeq(db, LAMBDA r : r.year = 2023)
  IN  [ ret |-> [ mothers |-> SnapshotStats(matching),
                  complications |-> ComplicationList(cdb, order),
                  overall_average |-> SnapshotStats(overall) ],
        executed |-> 3 ]

----------------------------------------------------------------------------
(* get_pregnant_scenario_data over the Birth and Baby tables                *)

BirthRow(year, lhd, onset_labour, birth_type, gestational_age_category, percentage) ==
  [ year |-> year, lhd |-> lhd, onset_labour |-> onset_labour,
    birth_type |-> birth_type,
    gestational_age_category |-> gestational_age_category,
    percentage |-> percentage ]

BabyRow(year, lhd, birth_weight_category, nicu_admission, scunicu_admission, percentage) ==
  [ year |-> year, lhd |-> lhd, birth_weight_category |-> birth_weight_category,
    nicu_admission |-> nicu_admission,
    scunicu_admission |-> scunicu_admission, percentage |-> percentage ]

\* `birth_filters`: the district when lhd is supplied.
BirthFilters(row, lhd) == TruthyStr(lhd) => row.lhd = lhd

\* The Birth rows of 2023 that pass birth_filters.
BirthSelection(bdb, lhd) ==
  SelectSeq(bdb, LAMBDA b : b.year = 2023 /\ BirthFilters(b, lhd))

\* The values of column `col` the grouped Birth queries return a row for.
BirthGroups(bdb, lhd, col) == {b[col] : b \in Range(BirthSelection(bdb, lhd))}

\* A grouped Birth query read into a list of {type, count, percentage}; the
\* query has no ORDER BY, `order` is the order the store returns.
BirthGroupList(bdb, lhd, col, order) ==
  [i \in 1..Len(order) |->
     LET rows == SelectSeq(BirthSelection(bdb, lhd), LAMBDA b : b[col] = order[i])
     IN  [ type |-> order[i], count |-> Len(rows),
           percentage |-> FloatOrZero(SqlAvg(rows, "percentage")) ]]

\* select(count(id), avg(percentage)) read into {count, percentage}.
CountStats(rows) ==
  [ count |-> Len(rows), percentage |-> FloatOrZero(SqlAvg(rows, "percentage")) ]

\* The preterm query.
PretermRows(bdb, lhd) ==
  SelectSeq(BirthSelection(bdb, lhd), LAMBDA b :
    b.gestational_age_category = Some("preterm"))

\* The low-birth-weight query.
LowBirthWeightRows(ydb) ==
  SelectSeq(ydb, LAMBDA y :
    y.year = 2023 /\ y.birth_weight_category = Some("low"))

\* The NICU query: a disjunction with a NULL operand is true only when the
\* other operand is true.
NicuRows(ydb) ==
  SelectSeq(ydb, LAMBDA y :
    /\ y.year = 2023
    /\ y.nicu_admission = Some(TRUE) \/ y.scunicu_admission = Some(TRUE))

\* The queries of get_pregnant_scenario_data, in the order it issues them.
PregnantQueries ==
  << "labour_onset", "birth_types", "preterm", "low_birth_weight", "nicu" >>

\* The value stored under `name` with the district filter applied to the
\* Baby queries as well.
PregnantAnswerDistrictBabies(name, bdb, ydb, order, lhd) ==
  LET own == SelectSeq(ydb, LAMBDA y : TruthyStr(lhd) => y.lhd = lhd)
  IN  CASE name = "labour_onset" -> BirthGroupList(bdb, lhd, "onset_labour", order)
        [] name = "birth_types" -> BirthGroupList(bdb, lhd, "birth_type", order)
        [] name = "preterm" -> CountStats(PretermRows(bdb, lhd))
        [] name = "low_birth_weight" -> CountStats(LowBirthWeightRows(own))
        [] name = "nicu" -> CountStats(NicuRows(own))

\* The value get_pregnant_scenario_data stores under `name`.
PregnantAnswer(name, bdb, ydb, order, lhd) ==
  CASE name = "labour_onset" -> BirthGroupList(bdb, lhd, "onset_labour", order)
    [] name = "birth_types" -> BirthGroupList(bdb, lhd, "birth_type", order)
    [] name = "preterm" -> CountStats(PretermRows(bdb, lhd))
    [] name = "low_birth_weight" -> CountStats(LowBirthWeightRows(ydb))
    [] name = "nicu" -> CountStats(NicuRows(ydb))

\* get_pregnant_scenario_data: the value returned and the queries executed.
get_pregnant_scenario_data(bdb, ydb, onset_order, type_order, age_group, antenatal_week, current_week, lhd) ==
  [ ret |-> [ labour_onset |-> PregnantAnswer("labour_onset", bdb, ydb, onset_order, lhd),
              birth_types |-> PregnantAnswer("birth_types", bdb, ydb, type_order, lhd),
              preterm |-> PregnantAnswer("preterm", bdb, ydb, <<>>, lhd),
              low_birth_weight |-> PregnantAnswer("low_birth_weight", bdb, ydb, <<>>, lhd),
              nicu |-> PregnantAnswer("nicu", bdb, ydb, <<>>, lhd) ],
    executed |-> 5 ]

----------------------------------------------------------------------------
(* get_comparison_data (app/controllers/comparison_controller.py)           *)

\* filters.get(key): the value of the key, None when the dict lacks it.
DictGet(d, key) == IF key \in DOMAIN d THEN d[key] ELSE None

\* `user_filters`: one equality per attribute the filters dict supplies.
UserFilters(row, filters) ==
  ProfileFilters(row, DictGet(filters, "age_group"), DictGet(filters, "smoking"),
                 DictGet(filters, "bmi"), DictGet(filters, "diabetes"),
                 DictGet(filters, "hypertension"), DictGet(filters, "lhd"))

\* `if user_filters:` the list is not empty.
HasUserFilters(filters) ==
  \/ TruthyStr(DictGet(filters, "age_group"))
  \/ TruthyStr(DictGet(filters, "smoking"))
  \/ TruthyStr(DictGet(filters, "bmi"))
  \/ ~IsNone(DictGet(filters, "diabetes"))
  \/ ~IsNone(DictGet(filters, "hypertension"))
  \/ TruthyStr(DictGet(filters, "lhd"))

\* The `results` dict get_comparison_data starts from.
ComparisonResults(filters) ==
  [ user_conditions |-> filters, user_stats |-> EmptyDict,
    overall_average |-> EmptyDict ]

\* The queries of get_comparison_data, in the order it issues them.
ComparisonQueries(scenario, filters) ==
  IF scenario = "preparing"
  THEN (IF HasUserFilters(filters) THEN <<"user_stats">> ELSE <<>>)
       \o <<"overall_average">>
  ELSE <<>>

\* The value get_comparison_data stores under `name`.
ComparisonAnswer(name, db, filters) ==
  IF name = "user_stats"
  THEN SnapshotStats(SelectSeq(db, LAMBDA r : UserFilters(r, filters)))
  ELSE SnapshotStats(SelectSeq(db, LAMBDA r : r.year = 2023))

\* get_comparison_data: the value returned and the queries executed.
get_comparison_data(db, scenario, filters) ==
  LET queries == ComparisonQueries(scenario, filters)
      start == ComparisonResults(filters)
      withUser == IF "user_stats" \in Range(queries)
                  THEN [start EXCEPT !.user_stats =
                          ComparisonAnswer("user_stats", db, filters)]
                  ELSE start
      withOverall == IF "overall_average" \in Range(queries)
                     THEN [withUser EXCEPT !.overall_average =
                             ComparisonAnswer("overall_average", db, filters)]
                     ELSE withUser
  IN  [ret |-> withOverall, executed |-> Len(queries)]

----------------------------------------------------------------------------
(* The stores and the request parameters the model explores                *)

\* Largest number of Mother rows in the store.
MaxRows == 2

\* A row as import_diabetes_hypertension_csv writes it for diabetes.
DiabetesRow(year, age_group, pre, subgroup, total_mothers, percentage) ==
  MotherRow(year, age_group, pre, subgroup, None, None, None, None, None,
            total_mothers, percentage)

\* A row as import_diabetes_hypertension_csv writes it for hypertension.
HypertensionRow(year, age_group, pre, subgroup, total_mothers, percentage) ==
  MotherRow(year, age_group, None, None, pre, subgroup, None, None, None,
            total_mothers, percentage)

GD == "Gestational diabetes"

GH == "Gestational hypertension"

\* The rows a store is drawn from: one reference row and the rows that
\* differ from it in the year, the age group, the sub-group, the factor
\* value or the statistics, then a hypertension row (whose diabetes fields
\* are NULL).
MotherRows ==
  {DiabetesRow(2023, Some("20-24"), Some(TRUE), Some(GD), Some(30), Some(5))}
  \cup {DiabetesRow(y, Some("20-24"), Some(TRUE), Some(GD), Some(30), Some(5)) :
          y \in {2018, 2019, 2024}}
  \cup {DiabetesRow(2023, a, Some(TRUE), Some(GD), Some(30), Some(5)) :
          a \in {None, Some("25-29"), Some("Total"), Some("TOTAL"),
                 Some("Not Stated")}}
  \cup {DiabetesRow(2023, Some("20-24"), Some(TRUE), sg, Some(30), Some(5)) :
          sg \in {None, Some(""), Some("Total"), Some("total")}}
  \cup {DiabetesRow(2023, Some("20-24"), Some(TRUE), Some("Unknown"), Some(70), Some(7))}
  \cup {DiabetesRow(2023, Some("20-24"), Some(FALSE), Some(GD), Some(70), Some(7))}
  \cup {DiabetesRow(2023, Some("20-24"), Some(TRUE), Some(GD), st[1], st[2]) :
          st \in {<<None, None>>, <<Some(0), Some(0)>>, <<Some(70), Some(7)>>}}
  \cup {HypertensionRow(2023, Some("20-24"), Some(FALSE), Some(GH), Some(70), Some(7))}

RECURSIVE SeqsUpTo(_, _)
\* The sequences over S of length at most n.
SeqsUpTo(S, n) ==
  IF n = 0 THEN {<<>>}
  ELSE LET shorter == SeqsUpTo(S, n - 1)
       IN  shorter \cup {Append(q, x) : q \in shorter, x \in S}

Stores == SeqsUpTo(MotherRows, MaxRows)

ComplicationRow(complication_type, year, percentage) ==
  [complication_type |-> complication_type, year |-> year,
   percentage |-> percentage]

\* The Complication tables: empty (the import entry point fills only the
\* Mother table) or two complication types of the reference year.
ComplicationStores ==
  { <<>>,
    << ComplicationRow(Some("Anaemia"), 2023, Some(5)),
       ComplicationRow(Some("Preeclampsia"), 2023, None) >> }

YearArgs == {None, Some(0), Some(2019), Some(2023)}

HintArgs == {None, Some("20-24")}

\* Both bounds absent, or the range 2019..2023 in the handler's convention.
YearPairs == {<<None, None>>, <<Some(2023), Some(2019)>>}

FactorArgSet(factors, hints, years, subs) ==
  { [factor_name |-> f, age_group |-> h, start_year |-> y[1],
     end_year |-> y[2], sub_group |-> sg] :
      f \in factors, h \in hints, y \in years, sg \in subs }

\* Parameters of GET /factor/{factor_name}.
FactorArgs ==
  FactorArgSet({"diabetes"}, {None}, YearArgs \X YearArgs, {None})
  \cup FactorArgSet({"diabetes"}, HintArgs, YearPairs, {None})
  \cup FactorArgSet({"diabetes"}, {None}, YearPairs,
         {Some(<<>>), Some(<<"">>), Some(<<GD>>), Some(<<GD, "Unknown">>)})
  \cup FactorArgSet({"hypertension"}, {None}, YearPairs, {None, Some(<<GH>>)})
  \cup FactorArgSet({"Diabetes", "smoking"}, {None}, YearPairs,
         {None, Some(<<GD>>)})
  \cup FactorArgSet({"Diabetes"}, {Some("20-24")}, {<<None, None>>}, {None})

SimpleArgSet(factors, hints, years) ==
  { [factor_name |-> f, age_group |-> h, start_year |-> y[1],
     end_year |-> y[2]] : f \in factors, h \in hints, y \in years }

\* Parameters of GET /factor/{factor_name}/simple.
SimpleArgs ==
  SimpleArgSet({"diabetes"}, {None}, YearArgs \X YearArgs)
  \cup SimpleArgSet({"diabetes", "hypertension"}, HintArgs, YearPairs)
  \cup SimpleArgSet({"Diabetes", "smoking"}, {None}, YearPairs)
  \cup SimpleArgSet({"Diabetes"}, {Some("20-24")}, {<<None, None>>})

\* The attributes of a profile that are supplied.
Supplied(a) ==
  {f \in {"age_group", "smoking", "bmi", "diabetes", "hypertension", "lhd"} :
     ~IsNone(a[f])}

\* Parameters of GET /scenario/preparing: no attribute, one attribute, or
\* the diabetes flag and one other attribute.
PreparingArgs ==
  { a \in [ age_group : {None, Some(""), Some("20-24")},
            smoking : {None, Some("no")}, bmi : {None, Some("Obese")},
            diabetes : {None, Some(TRUE), Some(FALSE)},
            hypertension : {None, Some(FALSE)}, lhd : {None, Some("NSW")} ] :
      \/ Cardinality(Supplied(a)) <= 1
      \/ Cardinality(Supplied(a)) = 2 /\ "diabetes" \in Supplied(a) }

\* The rows of a store filled by the profile imports: a row carries the
\* fields its import sets (the age group; the BMI category and the district;
\* the smoking status and the district; one flag alone), next to rows of the
\* factor import, a row of another year and a row without a percentage.
ProfileRows ==
  {MotherRow(2023, a, None, None, None, None, None, None, None, Some(30), Some(5)) :
     a \in {Some("20-24"), Some("25-29")}}
  \cup {MotherRow(2023, None, None, None, None, None, None, Some("Obese"), Some("NSW"), Some(30), Some(5))}
  \cup {MotherRow(2023, None, None, None, None, None, Some("no"), None, l, Some(70), Some(7)) :
          l \in {Some("NSW"), Some("Hunter")}}
  \cup {MotherRow(2023, None, Some(b), None, None, None, None, None, None, Some(30), Some(5)) :
          b \in BOOLEAN}
  \cup {MotherRow(2023, None, None, None, Some(b), None, None, None, None, Some(70), Some(7)) :
          b \in BOOLEAN}
  \cup {DiabetesRow(2023, Some("20-24"), Some(b), Some(GD), Some(30), Some(5)) :
          b \in BOOLEAN}
  \cup {DiabetesRow(2024, Some("20-24"), Some(TRUE), Some(GD), Some(30), Some(5))}
  \cup {MotherRow(2023, Some("20-24"), None, None, None, None, None, None, None, None, None)}

ProfileStores == SeqsUpTo(ProfileRows, MaxRows)

\* The rows of a store in which several rows share one
\* (age_group, year, factor value): the counts 30, 70 and NULL for the value
\* true, 70 and 30 for the value false, and a row of another year.
CountRows ==
  {DiabetesRow(2023, Some("20-24"), Some(TRUE), Some(GD), st[1], st[2]) :
     st \in {<<Some(30), Some(5)>>, <<Some(70), Some(7)>>, <<None, None>>}}
  \cup {DiabetesRow(2023, Some("20-24"), Some(FALSE), Some(GD), st[1], st[2]) :
          st \in {<<Some(70), Some(7)>>, <<Some(30), Some(5)>>}}
  \cup {DiabetesRow(2019, Some("20-24"), Some(TRUE), Some(GD), Some(30), Some(5))}

\* The rows whose order in the table could matter: rows that share a group,
\* rows whose groups are reported in one cell (sub-group NULL, empty and
\* "Unknown"), rows of both factor values, of another year and of other
\* age groups.
OrderRows ==
  {DiabetesRow(2023, Some("20-24"), Some(TRUE), Some(GD), st[1], st[2]) :
     st \in {<<Some(30), Some(5)>>, <<Some(70), Some(7)>>}}
  \cup {DiabetesRow(2023, Some("20-24"), Some(TRUE), None, Some(30), Some(5)),
        DiabetesRow(2023, Some("20-24"), Some(TRUE), Some(""), Some(0), Some(0)),
        DiabetesRow(2023, Some("20-24"), Some(TRUE), Some("Unknown"), Some(70), Some(7)),
        DiabetesRow(2023, Some("20-24"), Some(FALSE), Some(GD), Some(70), Some(7)),
        DiabetesRow(2019, Some("20-24"), Some(TRUE), Some(GD), Some(30), Some(5)),
        DiabetesRow(2023, Some("25-29"), Some(TRUE), Some(GD), Some(30), Some(5)),
        DiabetesRow(2023, Some("Total"), Some(TRUE), Some(GD), Some(30), Some(5))}

OrderStores == SeqsUpTo(OrderRows, MaxRows)

\* Stores of up to one row more than MaxRows: two rows of one key next to a
\* row of the other factor value.
CountStores == SeqsUpTo(CountRows, MaxRows + 1)

\* Parameters of GET /scenario/preparing: every combination of the values.
ProfileArgs ==
  [ age_group : {None, Some(""), Some("20-24")},
    smoking : {None, Some("no")}, bmi : {None, Some("Obese")},
    diabetes : {None, Some(TRUE), Some(FALSE)},
    hypertension : {None, Some(FALSE)}, lhd : {None, Some("NSW")} ]

----------------------------------------------------------------------------
(* The state machine                                                       *)

NoCall == [op |-> "none"]

Init ==
  /\ store \in Stores
  /\ complication \in ComplicationStores
  /\ Len(store) = MaxRows => complication = <<>>
  /\ birth = <<>>
  /\ baby = <<>>
  /\ pc = "idle"
  /\ call = NoCall
  /\ result = None
  /\ executed = 0
  /\ inflight = <<>>
  /\ sessions = {}

\* GET /api/v1/factor/{factor_name}
FactorRequest ==
  /\ pc = "idle"
  /\ \E a \in FactorArgs :
       LET r == get_factor_data(store, a.factor_name, a.age_group,
                                a.start_year, a.end_year, a.sub_group)
       IN  /\ call' = [op |-> "get_factor_data", args |-> a]
           /\ result' = Some(r.ret)
           /\ executed' = r.executed
  /\ pc' = "done"
  /\ UNCHANGED <<tables, service>>

\* GET /api/v1/factor/{factor_name}/simple
SimpleRequest ==
  /\ pc = "idle"
  /\ \E a \in SimpleArgs :
       LET r == get_factor_data_simple(store, a.factor_name, a.age_group,
                                       a.start_year, a.end_year)
       IN  /\ call' = [op |-> "get_factor_data_simple", args |-> a]
           /\ result' = Some(r.ret)
           /\ executed' = r.executed
  /\ pc' = "done"
  /\ UNCHANGED <<tables, service>>

\* GET /api/v1/scenario/preparing with parameters among `args`.
Preparing(args) ==
  /\ pc = "idle"
  /\ \E a \in args, order \in Orders(ComplicationTypes(complication)) :
       LET r == get_preparing_scenario_data(store, complication, order,
                  a.age_group, a.smoking, a.bmi, a.diabetes, a.hypertension,
                  a.lhd)
       IN  /\ call' = [op |-> "get_preparing_scenario_data", args |-> a]
           /\ result' = Some(r.ret)
           /\ executed' = r.executed
  /\ pc' = "done"
  /\ UNCHANGED <<tables, service>>

PreparingRequest == Preparing(PreparingArgs)

\* GET /api/v1/scenario/preparing on a store of profile rows.
ProfileRequest == Preparing(ProfileArgs)

\* The response is sent and the request's values are dropped.
Respond ==
  /\ pc = "done"
  /\ pc' = "idle"
  /\ call' = NoCall
  /\ result' = None
  /\ executed' = 0
  /\ UNCHANGED <<tables, service>>

Next == FactorRequest \/ SimpleRequest \/ PreparingRequest \/ Respond

Spec == Init /\ [][Next]_vars

\* The scenario endpoint over a store filled by the profile imports.
ProfileInit ==
  /\ store \in ProfileStores
  /\ complication \in ComplicationStores
  /\ Len(store) = MaxRows => complication = <<>>
  /\ birth = <<>>
  /\ baby = <<>>
  /\ pc = "idle"
  /\ call = NoCall
  /\ result = None
  /\ executed = 0
  /\ inflight = <<>>
  /\ sessions = {}

ProfileNext == ProfileRequest \/ Respond

ProfileSpec == ProfileInit /\ [][ProfileNext]_vars

\* The factor views over a store whose rows share groups and cells.
OrderInit ==
  /\ store \in OrderStores
  /\ complication = <<>>
  /\ birth = <<>>
  /\ baby = <<>>
  /\ pc = "idle"
  /\ call = NoCall
  /\ result = None
  /\ executed = 0
  /\ inflight = <<>>
  /\ sessions = {}

OrderNext == FactorRequest \/ SimpleRequest \/ Respond

OrderSpec == OrderInit /\ [][OrderNext]_vars

\* The simple view over a store whose rows share keys.
CountInit ==
  /\ store \in CountStores
  /\ complication = <<>>
  /\ birth = <<>>
  /\ baby = <<>>
  /\ pc = "idle"
  /\ call = NoCall
  /\ result = None
  /\ executed = 0
  /\ inflight = <<>>
  /\ sessions = {}

CountNext == SimpleRequest \/ Respond

CountSpec == CountInit /\ [][CountNext]_vars

\* The rows that differ in the spelling of the sub-group: NULL, the empty
\* string, "Total" in three letter cases, "Unknown" and a named sub-group,
\* for both factors and both factor values.
SubGroupRows ==
  {DiabetesRow(2023, Some("20-24"), Some(TRUE), sg, Some(30), Some(5)) :
     sg \in {None, Some(""), Some("Total"), Some("total"), Some("TOTAL"),
             Some("Unknown"), Some(GD)}}
  \cup {DiabetesRow(2023, Some("20-24"), Some(FALSE), sg, Some(70), Some(7)) :
          sg \in {Some("Total"), Some("TOTAL"), Some(GD)}}
  \cup {HypertensionRow(2023, Some("20-24"), Some(TRUE), sg, Some(30), Some(5)) :
          sg \in {Some("Total"), Some("total")}}

\* Both views over a store whose rows differ in their sub-group.
SubGroupInit ==
  /\ store \in SeqsUpTo(SubGroupRows, MaxRows)
  /\ complication = <<>>
  /\ birth = <<>>
  /\ baby = <<>>
  /\ pc = "idle"
  /\ call = NoCall
  /\ result = None
  /\ executed = 0
  /\ inflight = <<>>
  /\ sessions = {}

SubGroupSpec ==
  SubGroupInit /\ [][FactorRequest \/ SimpleRequest \/ Respond]_vars

\* The `filters` dicts of a comparison: no key at all, single keys, a flag
\* next to another attribute, an empty text, and every key present with
\* None for the attributes that were not supplied.
ComparisonFilters ==
  { EmptyDict,
    [age_group |-> Some("20-24")], [age_group |-> Some("")],
    [smoking |-> Some("no")], [bmi |-> Some("Obese")], [lhd |-> Some("NSW")],
    [diabetes |-> Some(TRUE)], [diabetes |-> Some(FALSE)],
    [hypertension |-> Some(FALSE)], [diabetes |-> None],
    [age_group |-> Some("20-24"), diabetes |-> Some(TRUE)],
    [age_group |-> Some("25-29"), diabetes |-> Some(TRUE)] }
  \cup { a \in ProfileArgs : Supplied(a) \in {{}, {"smoking", "lhd"}} }

\* A call of get_comparison_data.
ComparisonRequest ==
  /\ pc = "idle"
  /\ \E sc \in {"preparing", "pregnant"}, f \in ComparisonFilters :
       LET r == get_comparison_data(store, sc, f)
       IN  /\ call' = [op |-> "get_comparison_data",
                       args |-> [scenario |-> sc, filters |-> f]]
           /\ result' = Some(r.ret)
           /\ executed' = r.executed
  /\ pc' = "done"
  /\ UNCHANGED <<tables, service>>

\* Comparisons over a store of profile rows.
ComparisonInit ==
  /\ store \in ProfileStores
  /\ complication = <<>>
  /\ birth = <<>>
  /\ baby = <<>>
  /\ pc = "idle"
  /\ call = NoCall
  /\ result = None
  /\ executed = 0
  /\ inflight = <<>>
  /\ sessions = {}

ComparisonSpec == ComparisonInit /\ [][ComparisonRequest \/ Respond]_vars

\* Birth rows of two districts and of no district, of two onsets, birth
\* types and gestational categories, of 2023 and of another year.
BirthRows ==
  { BirthRow(2023, Some("NSW"), Some("Spontaneous"), Some("Vaginal"), Some("preterm"), Some(5)),
    BirthRow(2023, Some("Hunter"), Some("Induced"), Some("Caesarean"), Some("preterm"), Some(7)),
    BirthRow(2023, None, Some("Spontaneous"), Some("Caesarean"), Some("term"), None),
    BirthRow(2022, Some("NSW"), Some("Induced"), Some("Vaginal"), Some("preterm"), Some(7)) }

\* Baby rows of two districts: low and normal weight, admitted or not.
BabyRows ==
  { BabyRow(2023, Some("NSW"), Some("low"), Some(TRUE), Some(FALSE), Some(5)),
    BabyRow(2023, Some("Hunter"), Some("low"), Some(FALSE), Some(TRUE), Some(7)),
    BabyRow(2023, Some("Hunter"), Some("normal"), None, None, Some(7)) }

\* Parameters of GET /scenario/pregnant: the district absent, empty or
\* given, with none, one or all of the other three parameters.
PregnantArgs ==
  { [age_group |-> t[1], antenatal_week |-> t[2], current_week |-> t[3],
     lhd |-> l] :
      t \in { <<None, None, None>>, <<Some("20-24"), None, None>>,
              <<None, Some("<14"), None>>, <<None, None, Some(40)>>,
              <<Some("25-29"), Some("<14"), Some(20)>> },
      l \in {None, Some(""), Some("NSW")} }

\* GET /api/v1/scenario/pregnant; `orders` are the orders in which the store
\* returned the groups of the two grouped queries.
PregnantRequest ==
  /\ pc = "idle"
  /\ \E a \in PregnantArgs :
       \E o1 \in Orders(BirthGroups(birth, a.lhd, "onset_labour")),
          o2 \in Orders(BirthGroups(birth, a.lhd, "birth_type")) :
         LET r == get_pregnant_scenario_data(birth, baby, o1, o2, a.age_group,
                    a.antenatal_week, a.current_week, a.lhd)
         IN  /\ call' = [op |-> "get_pregnant_scenario_data", args |-> a,
                         orders |-> <<o1, o2>>]
             /\ result' = Some(r.ret)
             /\ executed' = r.executed
  /\ pc' = "done"
  /\ UNCHANGED <<tables, service>>

\* The pregnant scenario over stores of Birth and Baby rows.
PregnantInit ==
  /\ store = <<>>
  /\ complication = <<>>
  /\ birth \in SeqsUpTo(BirthRows, MaxRows)
  /\ baby \in SeqsUpTo(BabyRows, MaxRows)
  /\ pc = "idle"
  /\ call = NoCall
  /\ result = None
  /\ executed = 0
  /\ inflight = <<>>
  /\ sessions = {}

PregnantSpec == PregnantInit /\ [][PregnantRequest \/ Respond]_vars

----------------------------------------------------------------------------
(* The import entry point (scripts/import_data.py): main,                  *)
(* clear_mother_table and import_diabetes_hypertension_csv                 *)

\* `batch_size = 100`
batch_size == 100

\* Largest number of consecutive runs of main.
MaxRuns == 2

\* A cell of the data frame: a missing value, a number, or a text that is
\* not a number (such as "n.p.").
NaN == [kind |-> "nan", v |-> 0]

Num(n) == [kind |-> "num", v |-> n]

NotANumber == [kind |-> "text", v |-> 0]

\* A row of the data frame.
CsvRow(sub_group, sub_group_disagg, topic_disagg, year, numerator, denominator) ==
  [ sub_group |-> sub_group, sub_group_disagg |-> sub_group_disagg,
    topic_disagg |-> topic_disagg, year |-> year, numerator |-> numerator,
    denominator |-> denominator ]

\* str.strip()
Strip(s) ==
  CASE s = " Total " -> "Total"
    [] s = " 20-24" -> "20-24"
    [] OTHER -> s

\* The factor words a lower-case string contains (`'diabetes' in ...`).
Words(s) ==
  CASE s = "diabetes status" -> {"diabetes"}
    [] s = "hypertension status" -> {"hypertension"}
    [] s = "gestational diabetes" -> {"diabetes"}
    [] s = "gestational hypertension" -> {"hypertension"}
    [] OTHER -> {}

\* `int(float(s)) if s and s != 'nan' and s != '' else 0`: None stands for
\* the ValueError of a text that is not a number.
IntOrZeroOf(cell) ==
  CASE cell.kind = "num" -> Some(cell.v)
    [] cell.kind = "nan" -> Some(0)
    [] OTHER -> None

\* The age group of a row: the stripped topic disaggregation unless it is
\* empty, "total" or "not stated" in any letter case.
AgeGroupOf(row) ==
  LET topic_disagg == Strip(row.topic_disagg)
  IN  IF topic_disagg # "" /\ Lower(topic_disagg) \notin {"total", "not stated"}
      THEN Some(Strip(topic_disagg)) ELSE None

\* The row passes every `continue` of the loop over the data frame.
Processed(row) ==
  /\ row.year.kind = "num"
  /\ row.denominator.kind = "num"
  /\ ~IsNone(IntOrZeroOf(row.numerator))
  /\ row.denominator.v # 0
  /\ TruthyStr(AgeGroupOf(row))

\* The dict a processed row is accumulated in.
FactorOf(row) ==
  IF "diabetes" \in Words(Lower(Strip(row.sub_group))) THEN "diabetes"
  ELSE IF "hypertension" \in Words(Lower(Strip(row.sub_group)))
  THEN "hypertension" ELSE "none"

\* data[key]: the largest denominator seen and the last numerator; a dict is
\* the sequence of its items in insertion order, each a key with its
\* {'num', 'den'}.
Accumulate(data, key, num_val, den_val) ==
  LET at == {i \in 1..Len(data) : data[i].key = key}
      old == IF at = {} THEN [key |-> key, num |-> 0, den |-> 0]
             ELSE data[CHOOSE i \in at : TRUE]
      item == [ key |-> key, num |-> num_val,
                den |-> IF den_val > old.den THEN den_val ELSE old.den ]
  IN  IF at = {} THEN Append(data, item)
      ELSE [data EXCEPT ![CHOOSE i \in at : TRUE] = item]

\* One iteration of `for idx, row in df.iterrows()`.
CsvRowStep(acc, row) ==
  IF ~Processed(row) \/ FactorOf(row) = "none" THEN acc
  ELSE LET key == <<Val(AgeGroupOf(row)), row.year.v, Strip(row.sub_group_disagg)>>
           num_val == Val(IntOrZeroOf(row.numerator))
       IN  [acc EXCEPT ![FactorOf(row)] =
              Accumulate(acc[FactorOf(row)], key, num_val, row.denominator.v)]

\* The Mother record created for a key of a factor; the percentage is the
\* exact quotient.
MotherRecord(factor, key, data) ==
  LET percentage == Rat(data.num * 100, data.den)
      has_factor == Lower(key[3]) \notin
                      { "diabetes - none", "diabetes - not stated",
                        "hypertension - none", "hypertension - not stated" }
  IN  IF factor = "diabetes"
      THEN MotherRow(key[2], Some(key[1]), Some(has_factor), Some(key[3]),
                     None, None, None, None, None, Some(data.num),
                     Some(percentage))
      ELSE MotherRow(key[2], Some(key[1]), None, None, Some(has_factor),
                     Some(key[3]), None, None, None, Some(data.num),
                     Some(percentage))

\* The records one of the two creation loops appends, in the order of the
\* dict: one for each key whose denominator is positive.
MotherRecords(factor, data) ==
  LET kept == SelectSeq(data, LAMBDA item : item.den > 0)
  IN  [i \in 1..Len(kept) |-> MotherRecord(factor, kept[i].key, kept[i])]

\* clear_mother_table leaving the rows in place.
clear_mother_table_keeping(db) == db

\* clear_mother_table: every row is deleted and the deletion committed.
clear_mother_table(db) == <<>>

\* The rows of the source files.
CsvRows ==
  { CsvRow("Diabetes status", GD, "20-24", Num(2023), Num(n[1]), Num(n[2])) :
      n \in {<<30, 100>>, <<70, 200>>, <<5, 0>>, <<5, -50>>} }
  \cup { CsvRow("Diabetes status", GD, t, Num(2023), Num(30), Num(100)) :
           t \in {" 20-24", "25-29", " Total ", "NOT STATED", ""} }
  \cup { CsvRow("Diabetes status", "Diabetes - None", "20-24", Num(2023), NaN, Num(100)),
         CsvRow("Diabetes status", GD, "20-24", Num(2023), NotANumber, Num(100)),
         CsvRow("Diabetes status", GD, "20-24", NaN, Num(30), Num(100)),
         CsvRow("Diabetes status", GD, "20-24", Num(2022), Num(30), NaN),
         CsvRow("Hypertension status", GH, "20-24", Num(2023), Num(30), Num(100)),
         CsvRow("Hypertension status", "Hypertension - Not stated", "20-24", Num(2023), Num(70), Num(100)),
         CsvRow("Smoking status", GD, "20-24", Num(2023), Num(30), Num(100)) }

\* A data frame of n rows with n distinct keys, alternately of diabetes and
\* of hypertension.
LongFrame(n) ==
  [ i \in 1..n |->
      IF i % 2 = 1
      THEN CsvRow("Diabetes status", GD, "20-24", Num(1900 + i), Num(i), Num(1000))
      ELSE CsvRow("Hypertension status", GH, "20-24", Num(1900 + i), Num(i), Num(1000)) ]

\* The source file: absent, unreadable, or read into a data frame of a few
\* rows or of about batch_size and twice batch_size keys.
SourceFiles ==
  { [kind |-> "missing", rows |-> <<>>], [kind |-> "unreadable", rows |-> <<>>] }
  \cup { [kind |-> "read", rows |-> rows] :
           rows \in SeqsUpTo(CsvRows, MaxRows)
                      \cup { LongFrame(n) :
                               n \in { batch_size - 1, batch_size, batch_size + 1,
                                       2 * batch_size + 1 } } }

\* The Mother table before the first run: empty, or holding rows of an
\* earlier import, one of them of the age group "Total".
EarlierTables ==
  { <<>>,
    << MotherRow(2023, Some("Total"), None, None, None, None, None, None, None,
                 Some(30), Some(Rat(5, 1))) >>,
    << MotherRecord("diabetes", <<"20-24", 2023, GD>>, [num |-> 30, den |-> 100]),
       MotherRecord("hypertension", <<"20-24", 2021, GH>>, [num |-> 30, den |-> 100]) >> }

\* diabetes_data and hypertension_data before the first row of the data
\* frame.
NoData == [diabetes |-> <<>>, hypertension |-> <<>>]

\* `call` holds the source file and the locals of the run in progress (the
\* rows still to read, the two dicts, the records still to create and
\* `batch`), `executed` the number of runs that have ended and `result` the
\* table as the first run left it.
ImportInit ==
  /\ store \in EarlierTables
  /\ complication = <<>>
  /\ birth = <<>>
  /\ baby = <<>>
  /\ pc = "idle"
  /\ \E f \in SourceFiles :
       call = [op |-> "main", file |-> f, unread |-> <<>>, data |-> NoData,
               todo |-> <<>>, batch |-> <<>>]
  /\ result = None
  /\ executed = 0
  /\ inflight = <<>>
  /\ sessions = {}

\* The end of a run of main.
RunEnded(table) ==
  /\ pc' = "idle"
  /\ executed' = executed + 1
  /\ result' = IF executed = 0 THEN Some(table) ELSE result

\* main up to the loop over the data frame: the table is cleared, then the
\* file is looked up and read.  A file that is absent or cannot be read
\* ends the run.
ClearAndRead ==
  /\ pc = "idle"
  /\ executed < MaxRuns
  /\ store' = clear_mother_table(store)
  /\ IF call.file.kind = "read"
     THEN /\ call' = [call EXCEPT !.unread = call.file.rows, !.data = NoData,
                                  !.todo = <<>>, !.batch = <<>>]
          /\ pc' = "reading"
          /\ UNCHANGED <<result, executed>>
     ELSE /\ RunEnded(store')
          /\ UNCHANGED call
  /\ UNCHANGED <<complication, birth, baby, service>>

\* One iteration of the loop over the data frame.
ReadRow ==
  /\ pc = "reading"
  /\ call.unread # <<>>
  /\ call' = [call EXCEPT !.data = CsvRowStep(call.data, Head(call.unread)),
                          !.unread = Tail(call.unread)]
  /\ UNCHANGED <<tables, pc, result, executed, service>>

\* The data frame is exhausted: the creation loops go through the items of
\* diabetes_data, then of hypertension_data.
BeginCreating ==
  /\ pc = "reading"
  /\ call.unread = <<>>
  /\ call' = [call EXCEPT !.todo = MotherRecords("diabetes", call.data.diabetes)
                                    \o MotherRecords("hypertension",
                                                     call.data.hypertension)]
  /\ pc' = "creating"
  /\ UNCHANGED <<tables, result, executed, service>>

\* One iteration of the creation loops: the record joins the batch, and a
\* batch of batch_size records is added and committed.
CreateRecord ==
  /\ pc = "creating"
  /\ call.todo # <<>>
  /\ LET batch == Append(call.batch, Head(call.todo))
     IN  IF Len(batch) >= batch_size
         THEN /\ store' = store \o batch
              /\ call' = [call EXCEPT !.todo = Tail(call.todo), !.batch = <<>>]
         ELSE /\ store' = store
              /\ call' = [call EXCEPT !.todo = Tail(call.todo), !.batch = batch]
  /\ UNCHANGED <<complication, birth, baby, pc, result, executed, service>>

\* `if batch:` the last records are added and committed, and main returns.
CommitFinal ==
  /\ pc = "creating"
  /\ call.todo = <<>>
  /\ store' = store \o call.batch
  /\ call' = [call EXCEPT !.data = NoData, !.batch = <<>>]
  /\ RunEnded(store')
  /\ UNCHANGED <<complication, birth, baby, service>>

ImportSpec ==
  ImportInit /\ [][ClearAndRead \/ ReadRow \/ BeginCreating \/ CreateRecord
                    \/ CommitFinal]_vars

----------------------------------------------------------------------------
(* Requests served side by side, one step per query and per loop iteration *)

\* Largest number of requests in progress at once.
MaxRequests == 2

Requests == 1..MaxRequests

\* The exception of a failed db.execute, as it reaches the caller.
Fault == [fault |-> "query failed"]

\* A request slot with no request in progress; `last` tells how the last
\* request of the slot ended.
Free == [pc |-> "free", last |-> "none"]

\* The slot of a request that has ended.
Freed(l) == [pc |-> "free", last |-> l.pc]

FactorOps == {"get_factor_data", "get_factor_data_simple"}

\* The value get_preparing_scenario_data stores under `name`.
PreparingAnswer(name, db, cdb, order, a) ==
  CASE name = "mothers" ->
         SnapshotStats(SelectSeq(db, LAMBDA r :
           /\ r.year = 2023
           /\ ProfileFilters(r, a.age_group, a.smoking, a.bmi, a.diabetes,
                             a.hypertension, a.lhd)))
    [] name = "complications" -> ComplicationList(cdb, order)
    [] name = "overall_average" ->
         SnapshotStats(SelectSeq(db, LAMBDA r : r.year = 2023))

\* The queries a call issues, in order.
QueriesOf(op, a) ==
  CASE op \in FactorOps ->
         IF a.factor_name \in {"diabetes", "hypertension"}
         THEN <<"rows">> ELSE <<>>
    [] op = "get_preparing_scenario_data" ->
         <<"mothers", "complications", "overall_average">>
    [] op = "get_pregnant_scenario_data" -> PregnantQueries
    [] op = "get_comparison_data" -> ComparisonQueries(a.scenario, a.filters)

\* The `results` dict a call starts from.
InitialResults(op, a) ==
  CASE op \in FactorOps -> FactorResults(a.factor_name, a.age_group, <<>>, EmptyDict)
    [] op = "get_comparison_data" -> ComparisonResults(a.filters)
    [] OTHER -> EmptyDict

\* The local values of a call that has just been entered.
Begun(c) ==
  [ pc |-> "query", op |-> c.op, args |-> c.args,
    todo |-> QueriesOf(c.op, c.args),
    results |-> InitialResults(c.op, c.args),
    rows |-> <<>>, acc |-> EmptyAcc, keys |-> <<>>, data |-> EmptyDict,
    executed |-> 0, failed |-> FALSE, response |-> None ]

\* The orders in which the store may return the rows of the next query.
OrdersFor(l, cdb, bdb) ==
  CASE Head(l.todo) = "complications" -> Orders(ComplicationTypes(cdb))
    [] Head(l.todo) = "labour_onset" ->
         Orders(BirthGroups(bdb, l.args.lhd, "onset_labour"))
    [] Head(l.todo) = "birth_types" ->
         Orders(BirthGroups(bdb, l.args.lhd, "birth_type"))
    [] OTHER -> {<<>>}

\* The value the next query of the call l puts into `results`.
Answer(l, db, cdb, bdb, ydb, order) ==
  CASE l.op = "get_preparing_scenario_data" ->
         PreparingAnswer(Head(l.todo), db, cdb, order, l.args)
    [] l.op = "get_pregnant_scenario_data" ->
         PregnantAnswer(Head(l.todo), bdb, ydb, order, l.args.lhd)
    [] l.op = "get_comparison_data" ->
         ComparisonAnswer(Head(l.todo), db, l.args.filters)

\* The local values after `await db.execute(query)` has returned.
Executed(l, db, cdb, bdb, ydb, order) ==
  CASE l.op = "get_factor_data" ->
         [l EXCEPT !.todo = Tail(@), !.executed = @ + 1, !.pc = "loop",
                   !.acc = EmptyAcc,
                   !.rows = FactorQuery(db, l.args.factor_name, l.args.start_year,
                                        l.args.end_year, l.args.sub_group)]
    [] l.op = "get_factor_data_simple" ->
         [l EXCEPT !.todo = Tail(@), !.executed = @ + 1, !.pc = "loop",
                   !.acc = EmptyTemp,
                   !.rows = SimpleQuery(db, l.args.factor_name, l.args.start_year,
                                        l.args.end_year)]
    [] OTHER ->
         [l EXCEPT !.todo = Tail(@), !.executed = @ + 1,
                   !.results = DictSet(@, Head(l.todo),
                                 Answer(l, db, cdb, bdb, ydb, order))]

\* A failed query handled by returning what `results` holds so far.
RaisedReturningPartial(l) ==
  [ pc |-> "returned", op |-> l.op, args |-> l.args, executed |-> l.executed,
    failed |-> l.failed, response |-> Some(l.results) ]

\* db.execute raised: no handler in the controller or the route catches it,
\* the call's frame is dropped and the exception reaches the caller.
Raised(l) ==
  [ pc |-> "raised", op |-> l.op, args |-> l.args, executed |-> l.executed,
    failed |-> l.failed, response |-> Some(Fault) ]

\* The call is at an iteration of `for row in result` or of the second pass,
\* or between the two passes.
CanReshape(l) ==
  \/ l.pc = "loop" /\ l.rows # <<>>
  \/ l.pc = "loop" /\ l.rows = <<>> /\ l.op = "get_factor_data_simple"
  \/ l.pc = "loop2" /\ l.keys # <<>>

\* The local values after that iteration.
Reshaped(l) ==
  IF l.pc = "loop" /\ l.rows # <<>>
  THEN [l EXCEPT !.rows = Tail(@),
                 !.acc = IF l.op = "get_factor_data"
                         THEN FactorRowStep(@, Head(l.rows))
                         ELSE SimpleRowStep(@, Head(l.rows))]
  ELSE IF l.pc = "loop"
  THEN [l EXCEPT !.pc = "loop2", !.keys = l.acc.keys]
  ELSE [l EXCEPT !.keys = Tail(@),
                 !.data = SimpleKeyStep(@, Head(l.keys), l.acc.counts[Head(l.keys)])]

\* An iteration that keeps the accumulators at module level: it writes them
\* for every call that is in the same loop of the same operation.
ReshapedAtShared(fl, r) ==
  [q \in DOMAIN fl |->
     IF q = r THEN Reshaped(fl[r])
     ELSE IF fl[q].pc = fl[r].pc /\ fl[q].op = fl[r].op
     THEN [fl[q] EXCEPT !.acc = Reshaped(fl[r]).acc,
                        !.data = Reshaped(fl[r]).data]
     ELSE fl[q]]

\* The requests in progress after request r has run one iteration: the
\* accumulators are locals of r's call.
ReshapedAt(fl, r) == [fl EXCEPT ![r] = Reshaped(fl[r])]

\* The call has reached its `return results`.
CanReturn(l) ==
  \/ l.pc = "query" /\ l.todo = <<>>
  \/ l.pc = "loop" /\ l.rows = <<>> /\ l.op = "get_factor_data"
  \/ l.pc = "loop2" /\ l.keys = <<>>

\* The value the call returns.
Returned(l) ==
  [ pc |-> "returned", op |-> l.op, args |-> l.args, executed |-> l.executed,
    failed |-> l.failed,
    response |->
      Some(CASE l.pc = "loop" ->
                  [l.results EXCEPT !.years = sorted(l.acc.years_set),
                                    !.age_groups = l.acc.age_groups_data]
             [] l.pc = "loop2" ->
                  [l.results EXCEPT !.years = sorted(l.acc.years_set),
                                    !.age_groups = l.data]
             [] OTHER -> l.results) ]

\* A table after a SELECT that also deletes the table's first row.
AfterSelectDeleting(db) == IF db = <<>> THEN db ELSE Tail(db)

\* A table after the session has executed a SELECT on it.
AfterSelect(db) == db

\* get_db that closes the session only after a normal return of the handler.
ExitedOnReturnOnly(open, r, l) == IF l.pc = "raised" THEN open ELSE open \ {r}

\* The open sessions after get_db's `async with` block of request r is left,
\* by the handler's return or by its exception.
Exited(open, r, l) == open \ {r}

\* The tables of the service machine.
ServiceWorlds ==
  { [ store |-> <<>>, complication |-> <<>>, birth |-> <<>>, baby |-> <<>> ],
    [ store |-> << DiabetesRow(2023, Some("20-24"), Some(TRUE), Some(GD), Some(30), Some(5)),
                   DiabetesRow(2019, Some("25-29"), Some(FALSE), Some(GD), Some(70), Some(7)) >>,
      complication |-> << ComplicationRow(Some("Anaemia"), 2023, Some(5)) >>,
      birth |-> << BirthRow(2023, Some("NSW"), Some("Induced"), Some("Caesarean"), Some("preterm"), Some(5)) >>,
      baby |-> << BabyRow(2023, Some("NSW"), Some("low"), Some(TRUE), None, Some(7)) >> ],
    [ store |-> << DiabetesRow(2023, Some("20-24"), Some(FALSE), Some(GD), Some(70), Some(7)),
                   DiabetesRow(2023, Some("20-24"), Some(TRUE), Some(GD), Some(30), Some(5)) >>,
      complication |-> <<>>,
      birth |-> << BirthRow(2023, Some("Hunter"), Some("Induced"), Some("Vaginal"), Some("term"), Some(7)),
                   BirthRow(2023, Some("NSW"), Some("Induced"), Some("Vaginal"), Some("preterm"), None) >>,
      baby |-> << BabyRow(2023, Some("Hunter"), Some("normal"), None, Some(FALSE), Some(5)) >> ] }

NoProfile ==
  [ age_group |-> None, smoking |-> None, bmi |-> None, diabetes |-> None,
    hypertension |-> None, lhd |-> None ]

\* The calls of the service machine.
ServiceCalls ==
  { [op |-> "get_factor_data", args |-> a] :
      a \in FactorArgSet({"diabetes"}, {None}, {<<None, None>>, <<Some(2019), None>>}, {None})
            \cup FactorArgSet({"smoking"}, {None}, {<<None, None>>}, {None}) }
  \cup { [op |-> "get_factor_data_simple", args |-> a] :
           a \in SimpleArgSet({"diabetes"}, {None}, {<<None, None>>}) }
  \cup { [op |-> "get_preparing_scenario_data",
          args |-> [NoProfile EXCEPT !.diabetes = Some(TRUE)]] }
  \cup { [op |-> "get_pregnant_scenario_data",
          args |-> [age_group |-> None, antenatal_week |-> None,
                    current_week |-> None, lhd |-> Some("NSW")]] }
  \cup { [op |-> "get_comparison_data", args |-> [scenario |-> sc, filters |-> f]] :
           sc \in {"preparing"}, f \in {EmptyDict, [diabetes |-> Some(TRUE)]} }
  \cup { [op |-> "get_comparison_data",
          args |-> [scenario |-> "pregnant", filters |-> EmptyDict]] }

ServiceInit ==
  /\ \E w \in ServiceWorlds :
       /\ store = w.store
       /\ complication = w.complication
       /\ birth = w.birth
       /\ baby = w.baby
  /\ pc = "idle"
  /\ call = NoCall
  /\ result = None
  /\ executed = 0
  /\ inflight = [r \in Requests |-> Free]
  /\ sessions = {}

\* A request arrives: get_db opens a session of its own and the handler
\* enters the controller.
Begin(r) ==
  /\ inflight[r].pc = "free"
  /\ \E c \in ServiceCalls : inflight' = [inflight EXCEPT ![r] = Begun(c)]
  /\ sessions' = sessions \cup {r}
  /\ UNCHANGED <<tables, pc, call, result, executed>>

\* The next `await db.execute(query)` of request r returns its rows.
Execute(r) ==
  /\ inflight[r].pc = "query"
  /\ inflight[r].todo # <<>>
  /\ \E order \in OrdersFor(inflight[r], complication, birth) :
       inflight' = [inflight EXCEPT ![r] =
                      Executed(@, store, complication, birth, baby, order)]
  /\ store' = AfterSelect(store)
  /\ complication' = AfterSelect(complication)
  /\ birth' = AfterSelect(birth)
  /\ baby' = AfterSelect(baby)
  /\ UNCHANGED <<sessions, pc, call, result, executed>>

\* The next `await db.execute(query)` of request r raises.
Fail(r) ==
  /\ inflight[r].pc = "query"
  /\ inflight[r].todo # <<>>
  /\ inflight' = [inflight EXCEPT ![r] =
                    Raised([@ EXCEPT !.failed = TRUE])]
  /\ UNCHANGED <<tables, sessions, pc, call, result, executed>>

\* Request r runs one iteration of a reshaping loop.
Reshape(r) ==
  /\ CanReshape(inflight[r])
  /\ inflight' = ReshapedAt(inflight, r)
  /\ UNCHANGED <<tables, sessions, pc, call, result, executed>>

\* The controller of request r returns its results to the handler.
Return(r) ==
  /\ CanReturn(inflight[r])
  /\ inflight' = [inflight EXCEPT ![r] = Returned(@)]
  /\ UNCHANGED <<tables, sessions, pc, call, result, executed>>

\* The handler of request r is left and get_db closes the session.
Release(r) ==
  /\ inflight[r].pc \in {"returned", "raised"}
  /\ sessions' = Exited(sessions, r, inflight[r])
  /\ inflight' = [inflight EXCEPT ![r] = Freed(@)]
  /\ UNCHANGED <<tables, pc, call, result, executed>>

ServiceNext ==
  \E r \in Requests :
    Begin(r) \/ Execute(r) \/ Fail(r) \/ Reshape(r) \/ Return(r) \/ Release(r)

ServiceSpec == ServiceInit /\ [][ServiceNext]_vars

----------------------------------------------------------------------------
(* Properties                                                              *)

\* A factor request has been served and its result is at hand.
FactorDone ==
  pc = "done" /\ call.op \in {"get_factor_data", "get_factor_data_simple"}

DetailedDone == pc = "done" /\ call.op = "get_factor_data"

SimpleDone == pc = "done" /\ call.op = "get_factor_data_simple"

Out == Val(result)

\* C1: the `years` list returned by get_factor_data and by
\* get_factor_data_simple is strictly ascending (sorted, no duplicate).
C1_YearsStrictlyAscending ==
  FactorDone =>
    \A i \in 1..(Len(Out.years) - 1) : Out.years[i] < Out.years[i + 1]

\* A simple-view result with two years from a store whose rows were inserted
\* latest year first.
C1_Witness ==
  /\ SimpleDone
  /\ Len(Out.years) = 2
  /\ Len(store) = 2
  /\ store[1].year > store[2].year

\* The spellings of the sentinel age groups.
SentinelSpellings ==
  {"total", "Total", "TOTAL", "not stated", "Not stated", "Not Stated",
   "NOT STATED"}

\* C2: no key of the returned age_groups is "total" or "not stated" in any
\* letter case, in both views.
C2_NoSentinelAgeGroup ==
  FactorDone => DOMAIN Out.age_groups \cap SentinelSpellings = {}

\* The query returned a row of the age group "TOTAL" next to a row that
\* survives into the output.
C2_Witness ==
  /\ DetailedDone
  /\ Out.age_groups # EmptyDict
  /\ \E i \in 1..Len(store) :
       /\ store[i].age_group = Some("TOTAL")
       /\ FactorWhere(store[i], call.args.factor_name, call.args.start_year,
                      call.args.end_year, call.args.sub_group)

\* C3: for a factor_name other than "diabetes" and "hypertension" both
\* views return years = [] and age_groups = {} and execute no query.
C3_UnrecognizedFactorIsEmpty ==
  FactorDone /\ call.args.factor_name \notin {"diabetes", "hypertension"} =>
    /\ Out.years = <<>>
    /\ Out.age_groups = EmptyDict
    /\ executed = 0

\* "Diabetes" was asked of the detailed view, with a sub-group list and both
\* year bounds, on a store that holds a diabetes row the filters let through.
C3_Witness ==
  /\ DetailedDone
  /\ call.args.factor_name = "Diabetes"
  /\ ~IsNone(call.args.sub_group)
  /\ ~IsNone(call.args.start_year)
  /\ \E i \in 1..Len(store) :
       FactorWhere(store[i], "diabetes", call.args.start_year,
                   call.args.end_year, call.args.sub_group)

\* The value the view of `op` returns for the parameters `a` on the table db.
Serve(op, db, a) ==
  IF op = "get_factor_data"
  THEN get_factor_data(db, a.factor_name, a.age_group, a.start_year,
                       a.end_year, a.sub_group).ret
  ELSE get_factor_data_simple(db, a.factor_name, a.age_group, a.start_year,
                              a.end_year).ret

\* The parameters `a` without year bounds.
Unbounded(a) == [a EXCEPT !.start_year = None, !.end_year = None]

\* C4: with both bounds supplied and end_year <= start_year, a row is
\* eligible exactly when end_year <= row.year <= start_year: the result is
\* the unbounded result over the rows of that range.
C4_InclusiveRange ==
  ( /\ FactorDone
    /\ ~IsNone(call.args.start_year)
    /\ ~IsNone(call.args.end_year)
    /\ Val(call.args.end_year) <= Val(call.args.start_year) ) =>
    LET inRange == SelectSeq(store, LAMBDA r :
                     /\ Val(call.args.end_year) <= r.year
                     /\ r.year <= Val(call.args.start_year))
    IN  Out = Serve(call.op, inRange, Unbounded(call.args))

\* The row r passes every condition of the call but the year conditions,
\* and its age group is not skipped.
PassesButYear(r) ==
  /\ ~SkippedAgeGroup(r.age_group)
  /\ IF call.op = "get_factor_data"
     THEN FactorWhere(r, call.args.factor_name, None, None, call.args.sub_group)
     ELSE SimpleWhere(r, call.args.factor_name, None, None)

\* C5: with only start_year supplied every year of the output is
\* <= start_year, with only end_year supplied every year is >= end_year,
\* and with neither no row is left out for its year.
C5_SingleBound ==
  ( FactorDone /\ call.args.factor_name \in {"diabetes", "hypertension"} ) =>
    /\ ( ~IsNone(call.args.start_year) /\ IsNone(call.args.end_year) ) =>
         \A i \in 1..Len(Out.years) : Out.years[i] <= Val(call.args.start_year)
    /\ ( IsNone(call.args.start_year) /\ ~IsNone(call.args.end_year) ) =>
         \A i \in 1..Len(Out.years) : Out.years[i] >= Val(call.args.end_year)
    /\ ( IsNone(call.args.start_year) /\ IsNone(call.args.end_year) ) =>
         \A i \in 1..Len(store) :
           PassesButYear(store[i]) => store[i].year \in Range(Out.years)

\* The label a row's sub-group is reported under: "Unknown" when missing.
ReportedLabel(sub_group) == IF IsNone(sub_group) THEN "Unknown" ELSE Val(sub_group)

\* The eligible rows of the detailed call that share (year, age_group, label).
CellRows(year, age_group, label) ==
  SelectSeq(store, LAMBDA r :
    /\ FactorWhere(r, call.args.factor_name, call.args.start_year,
                   call.args.end_year, call.args.sub_group)
    /\ ~SkippedAgeGroup(r.age_group)
    /\ r.year = year
    /\ r.age_group = Some(age_group)
    /\ ReportedLabel(r[SubgroupField(call.args.factor_name)]) = label)

\* C6: in get_factor_data every value of the output is the arithmetic mean
\* of the percentages of the eligible rows that share its
\* (year, age_group, sub_group).
C6_ValueIsGroupMean ==
  DetailedDone =>
    \A ag \in DOMAIN Out.age_groups :
      \A label \in DOMAIN Out.age_groups[ag] :
        \A y \in DOMAIN Out.age_groups[ag][label] :
          LET rows == CellRows(y, ag, label)
          IN  CountNonNull(rows, "percentage") > 0 =>
                Out.age_groups[ag][label][y] =
                  Rat(SumOpt(rows, "percentage"), CountNonNull(rows, "percentage"))

\* C7: in get_factor_data_simple every (age_group, year) of the output has
\* both a "Yes" and a "No" value, and the two sum to 100.
C7_YesNoSumTo100 ==
  SimpleDone =>
    \A ag \in DOMAIN Out.age_groups :
      /\ DOMAIN Out.age_groups[ag] = {"Yes", "No"}
      /\ DOMAIN Out.age_groups[ag]["Yes"] = DOMAIN Out.age_groups[ag]["No"]
      /\ \A y \in DOMAIN Out.age_groups[ag]["Yes"] :
           RatAdd(Out.age_groups[ag]["Yes"][y], Out.age_groups[ag]["No"][y])
             = Hundred

\* A true-count of 30 and a false-count of 70 for ("20-24", 2023) gave
\* Yes[2023] = 30 and No[2023] = 70.
C7_Witness ==
  /\ SimpleDone
  /\ "20-24" \in DOMAIN Out.age_groups
  /\ 2023 \in DOMAIN Out.age_groups["20-24"]["Yes"]
  /\ Out.age_groups["20-24"]["Yes"][2023] = Rat(30, 1)
  /\ Out.age_groups["20-24"]["No"][2023] = Rat(70, 1)

\* The row r of the store has a cell of its own age group and year in the
\* output, under some label.
Contributes(r) ==
  /\ Val(r.age_group) \in DOMAIN Out.age_groups
  /\ \E label \in DOMAIN Out.age_groups[Val(r.age_group)] :
       r.year \in DOMAIN Out.age_groups[Val(r.age_group)][label]

\* C8: in get_factor_data a non-empty sub_group list keeps exactly the rows
\* whose sub-group is an element of the list (rows with a null sub-group
\* excluded), so every label of the output is an element of the list; an
\* absent or empty list excludes no row.
C8_SubGroupMembership ==
  ( DetailedDone /\ call.args.factor_name \in {"diabetes", "hypertension"} ) =>
    LET sf == SubgroupField(call.args.factor_name)
        listed_rows == SelectSeq(store, LAMBDA r :
                         /\ ~IsNone(r[sf])
                         /\ Val(r[sf]) \in Range(Val(call.args.sub_group)))
        unfiltered == [call.args EXCEPT !.sub_group = None]
    IN  IF ~IsNone(call.args.sub_group) /\ Val(call.args.sub_group) # <<>>
        THEN /\ Out = Serve(call.op, listed_rows, unfiltered)
             /\ \A ag \in DOMAIN Out.age_groups :
                  DOMAIN Out.age_groups[ag] \subseteq Range(Val(call.args.sub_group))
        ELSE \A i \in 1..Len(store) :
               ( /\ FactorWhere(store[i], call.args.factor_name,
                                call.args.start_year, call.args.end_year, None)
                 /\ ~SkippedAgeGroup(store[i].age_group) ) =>
               Contributes(store[i])

\* The age groups a caller may pass as the hint.
OtherHints == {None, Some(""), Some("20-24"), Some("25-29"), Some("Total")}

\* C9: the age_group argument never restricts rows: the same call with any
\* other age_group returns the same years and age_groups, and
\* user_age_group echoes the argument.
C9_AgeGroupHintIgnored ==
  FactorDone =>
    /\ Out.user_age_group = call.args.age_group
    /\ \A h \in OtherHints :
         LET other == Serve(call.op, store, [call.args EXCEPT !.age_group = h])
         IN  /\ other.years = Out.years
             /\ other.age_groups = Out.age_groups
             /\ other.user_age_group = h

\* The detailed view was called with the hint "20-24" and returned another
\* age group as well.
C9_Witness ==
  /\ DetailedDone
  /\ call.args.age_group = Some("20-24")
  /\ {"20-24", "25-29"} \subseteq DOMAIN Out.age_groups

PreparingDone == pc = "done" /\ call.op = "get_preparing_scenario_data"

\* The row r is one the `mothers` query of the call counts.
MatchesProfile(r) ==
  /\ r.year = 2023
  /\ ProfileFilters(r, call.args.age_group, call.args.smoking, call.args.bmi,
                    call.args.diabetes, call.args.hypertension, call.args.lhd)

NoStats == [total |-> 0, avg_percentage |-> Zero]

\* C10: when no row matches, the factor views return years = [] and
\* age_groups = {}, and the `mothers` and `overall_average` snapshots of
\* get_preparing_scenario_data are total = 0 and avg_percentage = 0.0.
C10_NoMatchIsEmptyResult ==
  /\ ( DetailedDone /\ \A i \in 1..Len(store) :
         ~FactorWhere(store[i], call.args.factor_name, call.args.start_year,
                      call.args.end_year, call.args.sub_group) ) =>
       Out.years = <<>> /\ Out.age_groups = EmptyDict
  /\ ( SimpleDone /\ \A i \in 1..Len(store) :
         ~SimpleWhere(store[i], call.args.factor_name, call.args.start_year,
                      call.args.end_year) ) =>
       Out.years = <<>> /\ Out.age_groups = EmptyDict
  /\ ( PreparingDone /\ \A i \in 1..Len(store) : ~MatchesProfile(store[i]) ) =>
       Out.mothers = NoStats
  /\ ( PreparingDone /\ \A i \in 1..Len(store) : store[i].year # 2023 ) =>
       Out.overall_average = NoStats

\* The profile matched no row of a store that holds rows of 2024 and of 2023
\* with the attribute asked for.
C10_Witness ==
  /\ PreparingDone
  /\ ~IsNone(call.args.diabetes)
  /\ Len(store) = 2
  /\ store[1].year = 2024 /\ store[1].diabetes_pre = call.args.diabetes
  /\ store[2].year = 2023
  /\ Out.mothers = NoStats
  /\ Out.overall_average.total = 1

\* A text attribute is supplied when it is present and not empty; a flag is
\* supplied when it is present.
GivenText(x) == ~IsNone(x) /\ Val(x) # ""

\* The row r has, for every supplied attribute of the call, the value asked.
SatisfiesSupplied(r) ==
  /\ GivenText(call.args.age_group) => r.age_group = call.args.age_group
  /\ GivenText(call.args.smoking) => r.smoking_status = call.args.smoking
  /\ GivenText(call.args.bmi) => r.bmi_category = call.args.bmi
  /\ GivenText(call.args.lhd) => r.lhd = call.args.lhd
  /\ call.args.diabetes = Some(TRUE) =>
       ~IsNone(r.diabetes_pre) /\ Val(r.diabetes_pre)
  /\ call.args.diabetes = Some(FALSE) =>
       ~IsNone(r.diabetes_pre) /\ ~Val(r.diabetes_pre)
  /\ call.args.hypertension = Some(TRUE) =>
       ~IsNone(r.hypertension_pre) /\ Val(r.hypertension_pre)
  /\ call.args.hypertension = Some(FALSE) =>
       ~IsNone(r.hypertension_pre) /\ ~Val(r.hypertension_pre)

\* C11: the `mothers` snapshot counts exactly the rows of 2023 that satisfy
\* every supplied attribute; an attribute not supplied excludes no row, and
\* a flag supplied as false keeps only the rows whose flag is false.
C11_CountsConjunctionOfSupplied ==
  PreparingDone =>
    Out.mothers.total =
      Cardinality({i \in 1..Len(store) :
                     store[i].year = 2023 /\ SatisfiesSupplied(store[i])})

\* diabetes = false was asked on a store holding a row whose flag is false
\* and a row whose flag is null: one row was counted.
C11_Witness ==
  /\ PreparingDone
  /\ call.args.diabetes = Some(FALSE)
  /\ IsNone(call.args.age_group) /\ IsNone(call.args.lhd)
  /\ Len(store) = 2
  /\ store[1].year = 2023 /\ store[1].diabetes_pre = Some(FALSE)
  /\ store[2].year = 2023 /\ IsNone(store[2].diabetes_pre)
  /\ Out.mothers.total = 1

\* C12: with no profile filter supplied, the `mothers` snapshot equals the
\* `overall_average` baseline of year 2023.
C12_NoFilterEqualsBaseline ==
  ( /\ PreparingDone
    /\ ~GivenText(call.args.age_group) /\ ~GivenText(call.args.smoking)
    /\ ~GivenText(call.args.bmi) /\ ~GivenText(call.args.lhd)
    /\ IsNone(call.args.diabetes) /\ IsNone(call.args.hypertension) ) =>
    Out.mothers = Out.overall_average

\* No filter was supplied on a store holding a row of 2023 and a row of 2024;
\* the snapshot counts the row of 2023.
C12_Witness ==
  /\ PreparingDone
  /\ Supplied(call.args) = {}
  /\ Len(store) = 2
  /\ store[1].year = 2024
  /\ store[2].year = 2023 /\ ~IsNone(store[2].bmi_category)
  /\ Out.mothers.total = 1
  /\ Out.mothers.avg_percentage = Rat(5, 1)

\* The tables that hold the rows of db in another insertion order.
Reorderings(db) ==
  {[i \in 1..Len(db) |-> db[o[i]]] : o \in Orders(1..Len(db))}

\* C13: the years and age_groups returned by get_factor_data and by
\* get_factor_data_simple are the same for every insertion order of the
\* stored rows.
C13_InsertionOrderIrrelevant ==
  FactorDone =>
    \A db \in Reorderings(store) :
      /\ Serve(call.op, db, call.args).years = Out.years
      /\ Serve(call.op, db, call.args).age_groups = Out.age_groups

\* The detailed view served a store of two different rows of one age group
\* and year that are reported under the same label, the later-sorted
\* sub-group inserted first.
C13_Witness ==
  /\ DetailedDone
  /\ call.args.factor_name = "diabetes"
  /\ Len(store) = 2
  /\ store[1].diabetes_subgroup = Some("Unknown")
  /\ store[2].diabetes_subgroup = None
  /\ store[1].percentage # store[2].percentage
  /\ "20-24" \in DOMAIN Out.age_groups
  /\ "Unknown" \in DOMAIN Out.age_groups["20-24"]

\* C14: a request one of whose queries has failed carries the fault as its
\* response, never a results mapping, whatever its earlier queries returned,
\* and is past its queries: the failed query is not run again.
C14_FailurePropagates ==
  \A r \in DOMAIN inflight :
    ( inflight[r].pc # "free" /\ inflight[r].failed ) =>
      /\ inflight[r].pc = "raised"
      /\ inflight[r].response = Some(Fault)

\* The third query of get_preparing_scenario_data failed after two queries
\* of the request had succeeded.
C14_Witness ==
  \E r \in DOMAIN inflight :
    /\ inflight[r].pc = "raised"
    /\ inflight[r].op = "get_preparing_scenario_data"
    /\ inflight[r].executed = 2
    /\ store # <<>>

\* C15: the open sessions are exactly those of the requests in progress,
\* one each: a request that has finished, by a return or by a fault, has
\* left no session open.
C15_SessionReleasedOnEveryExit ==
  sessions = {r \in DOMAIN inflight : inflight[r].pc # "free"}

\* A request has ended by a fault and has been released, another request is
\* inside its loop, and only the session of that one is open.
C15_Witness ==
  \E r, q \in DOMAIN inflight :
    /\ inflight[r].pc = "free" /\ inflight[r].last = "raised"
    /\ inflight[q].pc = "loop"
    /\ sessions = {q}

\* C16: no step of any controller operation changes the Mother,
\* Complication, Birth or Baby table.
C16_StoreUnchanged == [][tables' = tables]_vars

\* get_pregnant_scenario_data has returned after its five queries on
\* non-empty tables.
C16_Witness ==
  \E r \in DOMAIN inflight :
    /\ inflight[r].pc = "returned"
    /\ inflight[r].op = "get_pregnant_scenario_data"
    /\ inflight[r].executed = 5
    /\ store # <<>> /\ birth # <<>> /\ baby # <<>>

\* The result the call of l returns when it runs alone on the tables, for
\* the orders o1 and o2 of its unordered queries.
Alone(l, o1, o2) ==
  CASE l.op = "get_factor_data" -> Serve(l.op, store, l.args)
    [] l.op = "get_factor_data_simple" -> Serve(l.op, store, l.args)
    [] l.op = "get_preparing_scenario_data" ->
         get_preparing_scenario_data(store, complication, o1, l.args.age_group,
           l.args.smoking, l.args.bmi, l.args.diabetes, l.args.hypertension,
           l.args.lhd).ret
    [] l.op = "get_pregnant_scenario_data" ->
         get_pregnant_scenario_data(birth, baby, o1, o2, l.args.age_group,
           l.args.antenatal_week, l.args.current_week, l.args.lhd).ret
    [] l.op = "get_comparison_data" ->
         get_comparison_data(store, l.args.scenario, l.args.filters).ret

\* The orders of the first and of the second unordered query of a call.
AloneOrders(l) ==
  CASE l.op = "get_preparing_scenario_data" ->
         Orders(ComplicationTypes(complication)) \X {<<>>}
    [] l.op = "get_pregnant_scenario_data" ->
         Orders(BirthGroups(birth, l.args.lhd, "onset_labour"))
           \X Orders(BirthGroups(birth, l.args.lhd, "birth_type"))
    [] OTHER -> {<<>>} \X {<<>>}

\* The rows of its query that the call of l has been through in its first
\* loop.
Consumed(l) ==
  LET all == IF l.op = "get_factor_data"
             THEN FactorQuery(store, l.args.factor_name, l.args.start_year,
                              l.args.end_year, l.args.sub_group)
             ELSE SimpleQuery(store, l.args.factor_name, l.args.start_year,
                              l.args.end_year)
  IN  SubSeq(all, 1, Len(all) - Len(l.rows))

\* C17: under every interleaving of the steps of concurrent requests, a
\* request returns the result its call returns alone, and the accumulators
\* of a request in its loop hold what its own rows put there.
C17_ConcurrentEqualsAlone ==
  \A r \in DOMAIN inflight :
    /\ inflight[r].pc = "returned" =>
         \E o \in AloneOrders(inflight[r]) :
           inflight[r].response = Some(Alone(inflight[r], o[1], o[2]))
    /\ inflight[r].pc = "loop" =>
         inflight[r].acc =
           IF inflight[r].op = "get_factor_data"
           THEN FactorLoop(Consumed(inflight[r]), EmptyAcc)
           ELSE SimpleFirstPass(Consumed(inflight[r]), EmptyTemp)

\* Two detailed calls with different year bounds ran side by side: one has
\* returned two years while the other is inside its loop.
C17_Witness ==
  \E r, q \in DOMAIN inflight :
    /\ inflight[r].pc = "returned" /\ inflight[r].op = "get_factor_data"
    /\ Len(Val(inflight[r].response).years) = 2
    /\ inflight[q].pc = "loop" /\ inflight[q].op = "get_factor_data"
    /\ inflight[q].args # inflight[r].args
    /\ inflight[q].acc.years_set # {}

\* The eligible rows of the detailed call in the group (year, age_group, sg).
GroupRows(year, age_group, sg) ==
  SelectSeq(store, LAMBDA r :
    /\ FactorWhere(r, call.args.factor_name, call.args.start_year,
                   call.args.end_year, call.args.sub_group)
    /\ r.year = year
    /\ r.age_group = Some(age_group)
    /\ r[SubgroupField(call.args.factor_name)] = sg)

\* The sub-groups of the groups that are reported in the cell
\* (year, age_group, label).
SubGroupsOfCell(year, age_group, label) ==
  {sg \in {r[SubgroupField(call.args.factor_name)] : r \in Range(store)} :
     GroupRows(year, age_group, sg) # <<>> /\ SubGroupLabel(sg) = label}

\* C18 as stated: a value of the output is the mean of its group's
\* percentages with every null percentage counted as 0.0, so that a null
\* row and a row of percentage p give p/2.
C18_NullCountsAsZero ==
  DetailedDone =>
    \A ag \in DOMAIN Out.age_groups :
      \A label \in DOMAIN Out.age_groups[ag] :
        \A y \in DOMAIN Out.age_groups[ag][label] :
          \E sg \in SubGroupsOfCell(y, ag, label) :
            LET rows == GroupRows(y, ag, sg)
            IN  Out.age_groups[ag][label][y] =
                  Rat(SumOpt(rows, "percentage"), Len(rows))

\* C18 as amended: a value of the output is the mean of the non-null
\* percentages of a group of its cell, null percentages left out of the
\* divisor, and 0.0 when the group has no non-null percentage.
C18_NullLeftOutOfMean ==
  DetailedDone =>
    \A ag \in DOMAIN Out.age_groups :
      \A label \in DOMAIN Out.age_groups[ag] :
        \A y \in DOMAIN Out.age_groups[ag][label] :
          \E sg \in SubGroupsOfCell(y, ag, label) :
            LET rows == GroupRows(y, ag, sg)
                n == CountNonNull(rows, "percentage")
            IN  Out.age_groups[ag][label][y] =
                  IF n = 0 THEN Zero ELSE Rat(SumOpt(rows, "percentage"), n)

\* A group of one row without a percentage and one row of percentage 5 was
\* reported as 5.
C18_Witness ==
  /\ DetailedDone
  /\ Len(store) = 2
  /\ store[1].age_group = Some("20-24") /\ store[2].age_group = Some("20-24")
  /\ store[1].year = 2023 /\ store[2].year = 2023
  /\ store[1].diabetes_subgroup = Some(GD) /\ store[2].diabetes_subgroup = Some(GD)
  /\ store[1].percentage = None /\ store[2].percentage = Some(5)
  /\ "20-24" \in DOMAIN Out.age_groups
  /\ Out.age_groups["20-24"][GD][2023] = Rat(5, 1)

\* The eligible rows of the simple call with the key (age_group, year) and
\* the factor value b.
KeyRows(age_group, year, b) ==
  SelectSeq(store, LAMBDA r :
    /\ SimpleWhere(r, call.args.factor_name, call.args.start_year,
                   call.args.end_year)
    /\ r.age_group = Some(age_group)
    /\ r.year = year
    /\ r[FactorField(call.args.factor_name)] = Some(b))

\* The sum of the counts of those rows, a null count taken as 0.
SummedCount(age_group, year, b) ==
  SumOpt(KeyRows(age_group, year, b), "total_mothers")

\* C19: in get_factor_data_simple the Yes and No values of an
\* (age_group, year) are count/total*100 with each count the sum of
\* total_mothers over the eligible rows of the key and factor value.
C19_PercentagesFromSummedCounts ==
  SimpleDone =>
    \A ag \in DOMAIN Out.age_groups :
      \A y \in DOMAIN Out.age_groups[ag]["Yes"] :
        LET yes == SummedCount(ag, y, TRUE)
            no == SummedCount(ag, y, FALSE)
        IN  /\ yes + no > 0
            /\ Out.age_groups[ag]["Yes"][y] = Rat(yes * 100, yes + no)
            /\ Out.age_groups[ag]["No"][y] = Rat(no * 100, yes + no)

\* Two rows of counts 30 and 70 with the factor value true and a row of
\* count 70 with the value false gave Yes = 100/170*100.
C19_Witness ==
  /\ SimpleDone
  /\ Len(store) = 3
  /\ Len(KeyRows("20-24", 2023, TRUE)) = 2
  /\ SummedCount("20-24", 2023, TRUE) = 100
  /\ SummedCount("20-24", 2023, FALSE) = 70
  /\ "20-24" \in DOMAIN Out.age_groups
  /\ Out.age_groups["20-24"]["Yes"][2023] = Rat(10000, 170)

\* The count of the last of the eligible rows of a key and factor value, 0
\* when there is none or when it is null.
LastCount(age_group, year, b) ==
  LET rows == KeyRows(age_group, year, b)
  IN  IF rows = <<>> THEN 0 ELSE IntOrZero(rows[Len(rows)].total_mothers)

\* C20 as stated: when several eligible rows share an
\* (age_group, year, factor value), the count kept is that of the last of
\* them, and the Yes and No values come from these last counts.
C20_LastRowOverwrites ==
  SimpleDone =>
    \A ag \in DOMAIN Out.age_groups :
      \A y \in DOMAIN Out.age_groups[ag]["Yes"] :
        LET yes == LastCount(ag, y, TRUE)
            no == LastCount(ag, y, FALSE)
        IN  /\ yes + no > 0
            /\ Out.age_groups[ag]["Yes"][y] = Rat(yes * 100, yes + no)
            /\ Out.age_groups[ag]["No"][y] = Rat(no * 100, yes + no)

\* The first pass of the simple call on the rows its query returns.
FirstPassOfCall ==
  SimpleFirstPass(SimpleQuery(store, call.args.factor_name,
                              call.args.start_year, call.args.end_year),
                  EmptyTemp)

\* C20 as amended: the query returns one row per
\* (age_group, year, factor value), so the first pass assigns each count
\* once and overwrites nothing: the count kept for a key and factor value is
\* the sum of the counts of the eligible rows that share them.
C20_DuplicateKeysAreSummed ==
  ( SimpleDone /\ call.args.factor_name \in {"diabetes", "hypertension"} ) =>
    /\ \A key \in DOMAIN FirstPassOfCall.counts : \A b \in BOOLEAN :
         FirstPassOfCall.counts[key][b] = SummedCount(key[1], key[2], b)
    /\ \A ag \in DOMAIN Out.age_groups :
         \A y \in DOMAIN Out.age_groups[ag]["Yes"] :
           /\ <<ag, y>> \in DOMAIN FirstPassOfCall.counts
           /\ Out.age_groups[ag]["Yes"][y] =
                Percentage(FirstPassOfCall.counts[<<ag, y>>][TRUE],
                           FirstPassOfCall.counts[<<ag, y>>][TRUE]
                             + FirstPassOfCall.counts[<<ag, y>>][FALSE])

\* Rows of counts 70 and then 30 share the key and the value true, next to a
\* row of count 70 with the value false: the kept count is 100, not 30.
C20_Witness ==
  /\ SimpleDone
  /\ Len(store) = 3
  /\ Len(KeyRows("20-24", 2023, TRUE)) = 2
  /\ LastCount("20-24", 2023, TRUE) = 30
  /\ SummedCount("20-24", 2023, FALSE) = 70
  /\ <<"20-24", 2023>> \in DOMAIN FirstPassOfCall.counts
  /\ FirstPassOfCall.counts[<<"20-24", 2023>>][TRUE] = 100
  /\ "20-24" \in DOMAIN Out.age_groups

\* The years that appear as a key of some age_groups[age_group][label].
CellYears(out) ==
  UNION { UNION { DOMAIN out.age_groups[ag][label] :
                    label \in DOMAIN out.age_groups[ag] } :
          ag \in DOMAIN out.age_groups }

\* C21: in both views `years` is exactly the set of years that are a key of
\* some age_groups[age_group][label]; a year whose groups are all skipped for
\* total == 0 is not listed.
C21_YearsAreCellYears ==
  FactorDone => Range(Out.years) = CellYears(Out)

\* The (age_group, year) groups of the simple call: the keys of the eligible
\* rows whose age group is not a sentinel.
SimpleGroups ==
  { <<Val(r.age_group), r.year>> :
      r \in { x \in Range(store) :
                /\ SimpleWhere(x, call.args.factor_name, call.args.start_year,
                               call.args.end_year)
                /\ ~SkippedAgeGroup(x.age_group) } }

\* The years under which the result holds a value for the age group and the
\* label, none when the age group or the label is absent.
YearsOf(out, age_group, label) ==
  IF age_group \notin DOMAIN out.age_groups THEN {}
  ELSE IF label \notin DOMAIN out.age_groups[age_group] THEN {}
  ELSE DOMAIN out.age_groups[age_group][label]

\* C22: in get_factor_data_simple a group (age_group, year) with
\* total = count_true + count_false = 0 gives no Yes and no No entry (and an
\* age group with no other group is absent); otherwise Yes is
\* count_true/total*100 and No is count_false/total*100, a factor value
\* without rows counting as 0.
C22_ZeroTotalSkippedElsePercentages ==
  ( SimpleDone /\ call.args.factor_name \in {"diabetes", "hypertension"} ) =>
    /\ \A g \in SimpleGroups :
         LET yes == SummedCount(g[1], g[2], TRUE)
             no == SummedCount(g[1], g[2], FALSE)
         IN  IF yes + no = 0
             THEN /\ g[2] \notin YearsOf(Out, g[1], "Yes")
                  /\ g[2] \notin YearsOf(Out, g[1], "No")
             ELSE /\ g[2] \in YearsOf(Out, g[1], "Yes")
                  /\ g[2] \in YearsOf(Out, g[1], "No")
                  /\ Out.age_groups[g[1]]["Yes"][g[2]] = Rat(yes * 100, yes + no)
                  /\ Out.age_groups[g[1]]["No"][g[2]] = Rat(no * 100, yes + no)
    /\ \A ag \in DOMAIN Out.age_groups :
         \E g \in SimpleGroups :
           /\ g[1] = ag
           /\ SummedCount(g[1], g[2], TRUE) + SummedCount(g[1], g[2], FALSE) > 0

\* The only row of 2023 has a null count and the only row of 2019 has the
\* factor value true: the 2023 group is skipped and 2019 reads Yes 100, No 0.
C22_Witness ==
  /\ SimpleDone
  /\ <<"20-24", 2023>> \in SimpleGroups
  /\ SummedCount("20-24", 2023, TRUE) + SummedCount("20-24", 2023, FALSE) = 0
  /\ KeyRows("20-24", 2019, FALSE) = <<>>
  /\ YearsOf(Out, "20-24", "Yes") = {2019}
  /\ Out.age_groups["20-24"]["Yes"][2019] = Hundred
  /\ Out.age_groups["20-24"]["No"][2019] = Zero

\* The rows of the simple call's (age_group, year) and factor value b that
\* pass every condition but the sub-group one and whose sub-group is not
\* exactly "Total" (NULL and any other spelling included).
NotExactlyTotalRows(age_group, year, b) ==
  SelectSeq(store, LAMBDA r :
    /\ r[FactorField(call.args.factor_name)] = Some(b)
    /\ r.age_group = Some(age_group)
    /\ r.year = year
    /\ YearConditions(r.year, call.args.start_year, call.args.end_year)
    /\ r[SubgroupField(call.args.factor_name)] # Some("Total"))

\* The sum of the counts of those rows.
NotExactlyTotalCount(age_group, year, b) ==
  SumOpt(NotExactlyTotalRows(age_group, year, b), "total_mothers")

\* C23: in get_factor_data_simple a row is left out for its sub-group only
\* when the sub-group is exactly "Total": rows of sub-group NULL, "total" or
\* "TOTAL" are kept and counted, so each group with such a count is in the
\* output and its Yes and No values come from the counts of these rows.
C23_OnlyExactTotalExcluded ==
  ( SimpleDone /\ call.args.factor_name \in {"diabetes", "hypertension"} ) =>
    \A r \in Range(store) :
      ( /\ ~IsNone(r.age_group) /\ ~SkippedAgeGroup(r.age_group)
        /\ ~IsNone(r[FactorField(call.args.factor_name)])
        /\ YearConditions(r.year, call.args.start_year, call.args.end_year) ) =>
        LET ag == Val(r.age_group)
            yes == NotExactlyTotalCount(ag, r.year, TRUE)
            no == NotExactlyTotalCount(ag, r.year, FALSE)
        IN  IF yes + no = 0
            THEN r.year \notin YearsOf(Out, ag, "Yes")
            ELSE /\ r.year \in YearsOf(Out, ag, "Yes")
                 /\ Out.age_groups[ag]["Yes"][r.year] = Rat(yes * 100, yes + no)
                 /\ Out.age_groups[ag]["No"][r.year] = Rat(no * 100, yes + no)

\* A row of sub-group "TOTAL" with the factor value true next to a row of
\* sub-group "Total" with the value false: only the first is counted.
C23_Witness ==
  /\ SimpleDone
  /\ call.args.factor_name = "diabetes"
  /\ Len(store) = 2
  /\ store[1].diabetes_subgroup = Some("TOTAL")
  /\ store[1].diabetes_pre = Some(TRUE)
  /\ store[2].diabetes_subgroup = Some("Total")
  /\ store[2].diabetes_pre = Some(FALSE)
  /\ YearsOf(Out, "20-24", "Yes") = {2023}
  /\ Out.age_groups["20-24"]["Yes"][2023] = Hundred
  /\ Out.age_groups["20-24"]["No"][2023] = Zero

\* C24: in get_factor_data every eligible row is reported under "Unknown"
\* when its sub-group is null and under its sub-group's own string otherwise:
\* the output holds a value for the row's age group, that label and the
\* row's year.
C24_MissingIsUnknownElseOwnLabel ==
  ( DetailedDone /\ call.args.factor_name \in {"diabetes", "hypertension"} ) =>
    \A r \in Range(store) :
      ( /\ FactorWhere(r, call.args.factor_name, call.args.start_year,
                       call.args.end_year, call.args.sub_group)
        /\ ~SkippedAgeGroup(r.age_group) ) =>
        r.year \in YearsOf(Out, Val(r.age_group),
                           ReportedLabel(r[SubgroupField(call.args.factor_name)]))

\* The rows the detailed call's query returned, one per grouping key
\* (year, age_group, sub_group).
GroupsOfCall ==
  FactorQuery(store, call.args.factor_name, call.args.start_year,
              call.args.end_year, call.args.sub_group)

\* The cell the loop of get_factor_data writes for a row of its query.
CellOf(row) ==
  <<Val(row.age_group), SubGroupLabel(row.sub_group), row.year>>

\* C27: in get_factor_data each cell age_groups[age_group][label][year] is
\* written by exactly one query group: no two distinct grouping keys are
\* written to the same cell.
C27_OneGroupPerCell ==
  ( DetailedDone /\ call.args.factor_name \in {"diabetes", "hypertension"} ) =>
    \A i, j \in 1..Len(GroupsOfCall) :
      ( /\ i # j
        /\ ~SkippedAgeGroup(GroupsOfCall[i].age_group)
        /\ ~SkippedAgeGroup(GroupsOfCall[j].age_group) ) =>
        CellOf(GroupsOfCall[i]) # CellOf(GroupsOfCall[j])

\* A comparison for the scenario "preparing" has been computed.
ComparisonDone ==
  /\ pc = "done"
  /\ call.op = "get_comparison_data"
  /\ call.args.scenario = "preparing"

\* The store's rows that match every attribute the filters dict supplies.
MatchesSupplied(filters) ==
  SelectSeq(store, LAMBDA r :
    /\ GivenText(DictGet(filters, "age_group")) =>
         r.age_group = DictGet(filters, "age_group")
    /\ GivenText(DictGet(filters, "smoking")) =>
         r.smoking_status = DictGet(filters, "smoking")
    /\ GivenText(DictGet(filters, "bmi")) =>
         r.bmi_category = DictGet(filters, "bmi")
    /\ ~IsNone(DictGet(filters, "diabetes")) =>
         r.diabetes_pre = DictGet(filters, "diabetes")
    /\ ~IsNone(DictGet(filters, "hypertension")) =>
         r.hypertension_pre = DictGet(filters, "hypertension")
    /\ GivenText(DictGet(filters, "lhd")) => r.lhd = DictGet(filters, "lhd"))

\* {total, avg_percentage} of a sequence of rows: the count and the mean of
\* the percentages, 0 and 0.0 when there is no row.
StatsOver(rows) ==
  [ total |-> Len(rows),
    avg_percentage |->
      IF CountNonNull(rows, "percentage") = 0 THEN Zero
      ELSE Rat(SumOpt(rows, "percentage"), CountNonNull(rows, "percentage")) ]

\* C25: for the scenario "preparing" and every filters dict, the empty one
\* included, user_stats and overall_average each hold `total` and
\* `avg_percentage`: the first over the rows matching the supplied
\* attributes, the second over the rows of year 2023.
C25_ComparisonAlwaysHasBothStats ==
  ComparisonDone =>
    /\ DOMAIN Out.user_stats = {"total", "avg_percentage"}
    /\ DOMAIN Out.overall_average = {"total", "avg_percentage"}
    /\ Out.user_stats = StatsOver(MatchesSupplied(call.args.filters))
    /\ Out.overall_average = StatsOver(SelectSeq(store, LAMBDA r : r.year = 2023))

\* C26: in both views, two non-zero bounds in natural order
\* (start_year < end_year) make no row eligible: years is empty and
\* age_groups is empty, the bounds being neither swapped nor reinterpreted.
C26_NaturalOrderBoundsGiveNothing ==
  ( /\ FactorDone
    /\ ~IsNone(call.args.start_year) /\ ~IsNone(call.args.end_year)
    /\ Val(call.args.start_year) # 0 /\ Val(call.args.end_year) # 0
    /\ Val(call.args.start_year) < Val(call.args.end_year) ) =>
    /\ Out.years = <<>>
    /\ Out.age_groups = EmptyDict

\* A call with start_year = 2019 and end_year = 2023 on a store that holds
\* rows of 2019 and of 2023 which the call without bounds reports.
C26_Witness ==
  /\ FactorDone
  /\ call.args.start_year = Some(2019)
  /\ call.args.end_year = Some(2023)
  /\ {r.year : r \in Range(store)} = {2019, 2023}
  /\ Serve(call.op, store, Unbounded(call.args)).years = <<2019, 2023>>
  /\ Out.years = <<>>

\* C28: in get_preparing_scenario_data, for every filters and every store,
\* mothers.total <= overall_average.total: the filtered snapshot counts a
\* subset of the rows of year 2023 that the baseline counts.
C28_MatchingWithinBaseline ==
  PreparingDone => Out.mothers.total <= Out.overall_average.total

\* A profile with a supplied attribute matched one of the two rows of 2023,
\* a row without a percentage.
C28_Witness ==
  /\ PreparingDone
  /\ Supplied(call.args) # {}
  /\ Out.mothers.total = 1
  /\ Out.overall_average.total = 2
  /\ \E i \in 1..Len(store) : MatchesProfile(store[i]) /\ IsNone(store[i].percentage)

\* A pregnant-scenario request has been served.
PregnantDone == pc = "done" /\ call.op = "get_pregnant_scenario_data"

\* The result of the call on the Birth rows `bdb` with the district `lhd`
\* and none of age_group, antenatal_week and current_week, the store
\* returning the groups in the orders of the call at hand.
PlainPregnant(bdb, lhd) ==
  get_pregnant_scenario_data(bdb, baby, call.orders[1], call.orders[2],
                             None, None, None, lhd).ret

\* C29: age_group, antenatal_week and current_week have no effect on the
\* result of get_pregnant_scenario_data; a supplied lhd restricts
\* labour_onset, birth_types and preterm to the Birth rows of that district
\* and nothing else: low_birth_weight and nicu are the same for every
\* argument combination.
C29_OnlyDistrictMatters ==
  PregnantDone =>
    /\ Out = PlainPregnant(birth, call.args.lhd)
    /\ Out.low_birth_weight = PlainPregnant(birth, None).low_birth_weight
    /\ Out.nicu = PlainPregnant(birth, None).nicu
    /\ GivenText(call.args.lhd) =>
         LET own == SelectSeq(birth, LAMBDA b : b.lhd = call.args.lhd)
         IN  /\ Out.labour_onset = PlainPregnant(own, None).labour_onset
             /\ Out.birth_types = PlainPregnant(own, None).birth_types
             /\ Out.preterm = PlainPregnant(own, None).preterm
    /\ ~GivenText(call.args.lhd) => Out = PlainPregnant(birth, None)

\* A call with all four arguments on Birth and Baby rows of two districts:
\* one of the two preterm births counted, both low-weight babies counted.
C29_Witness ==
  /\ PregnantDone
  /\ call.args.lhd = Some("NSW")
  /\ ~IsNone(call.args.age_group)
  /\ ~IsNone(call.args.antenatal_week)
  /\ ~IsNone(call.args.current_week)
  /\ Len(PretermRows(birth, None)) = 2
  /\ Out.preterm.count = 1
  /\ {y.lhd : y \in Range(baby)} = {Some("NSW"), Some("Hunter")}
  /\ Out.low_birth_weight.count = 2

\* A run of main has ended and no other is in progress.
BetweenRuns == pc = "idle" /\ call.op = "main" /\ executed >= 1

\* The factor and the (age_group, year, sub-group disaggregation) of a
\* Mother row written by the import.
ImportKeyOf(m) ==
  IF ~IsNone(m.diabetes_pre)
  THEN <<"diabetes", m.age_group, m.year, m.diabetes_subgroup>>
  ELSE <<"hypertension", m.age_group, m.year, m.hypertension_subgroup>>

\* The keys the source file gives a row for: those of its rows that have a
\* year, a numeric numerator (or none), a factor and an age group, with a
\* denominator above 0.
SourceKeys ==
  { <<FactorOf(r), Some(Strip(r.topic_disagg)), r.year.v,
      Some(Strip(r.sub_group_disagg))>> :
      r \in { x \in Range(call.file.rows) :
                /\ x.year.kind = "num"
                /\ x.numerator.kind # "text"
                /\ x.denominator.kind = "num" /\ x.denominator.v > 0
                /\ FactorOf(x) # "none"
                /\ Strip(x.topic_disagg) \notin SentinelSpellings \cup {""} } }

\* C30: main is idempotent on the Mother table.  After every run over the
\* same source file the table is what the first run left: one row for each
\* key (factor, age_group, year, sub-group disaggregation) of the file with
\* a denominator above 0, none twice and none lost at a batch of 100, and
\* no row of an age group "total" or "not stated" in any letter case.
C30_ImportIdempotent ==
  BetweenRuns =>
    /\ store = Val(result)
    /\ \A i, j \in 1..Len(store) :
         i # j => ImportKeyOf(store[i]) # ImportKeyOf(store[j])
    /\ {ImportKeyOf(store[i]) : i \in 1..Len(store)} = SourceKeys
    /\ \A i \in 1..Len(store) :
         /\ ~IsNone(store[i].age_group)
         /\ Val(store[i].age_group) \notin SentinelSpellings

\* The second run over a file of batch_size + 1 keys has ended: the table
\* holds batch_size + 1 rows, the last committed after the full batch.
C30_Witness ==
  /\ BetweenRuns
  /\ executed >= 2
  /\ Len(call.file.rows) = batch_size + 1
  /\ Len(store) = batch_size + 1

====
